---- MODULE Spec2Model ----
(***************************************************************************)
(* A model of the futarchy-twap library (lib/index.js): the provider       *)
(* cache, proposal-token resolution, pool lookup, orientation detection,   *)
(* the oracle TWAP computation and the two public operations               *)
(* calculateTwap and discoverPools.                                        *)
(*                                                                         *)
(* Representation.                                                         *)
(*  - Times and durations are integers counted in 1/Sub of a second, so    *)
(*    that fractional `days` (parseFloat) and Math.floor are modelled.     *)
(*    `now` and `endTimestamp` are whole seconds (multiples of Sub).       *)
(*  - `days` is the rational days/DaysDen.                                 *)
(*  - Prices are fixed-point numbers counted in 1/PriceScale; Infinity is  *)
(*    the greatest integer.                                                *)
(*  - An address is a sequence of one-character strings.                   *)
(*  - A read's outcome is [ok |-> TRUE, v |-> value, ...] when the promise *)
(*    resolves and [ok |-> FALSE, err |-> message, ...] when it rejects.   *)
(***************************************************************************)
EXTENDS Integers, Sequences, FiniteSets, TLC

(* ------------------------------ bounds -------------------------------- *)

\* Sub-second resolution of the model's time values.
Sub == 2

\* Largest lookback (in seconds) for which the oracle of the model may answer
\* with an extreme cumulative difference (the product must fit in 32 bits).
MaxHugeWindow == 1

(* --------------------------- chain registry --------------------------- *)

Gnosis == 100
Ethereum == 1

SupportedChains == {Gnosis, Ethereum}

CHAIN_CONFIG ==
    [c \in SupportedChains |->
        IF c = Gnosis
        THEN [name |-> "Gnosis", rpcUrl |-> "https://rpc.gnosischain.com",
              mode |-> "algebra", factory |-> <<"A", "0", "8">>, feeTiers |-> << >>]
        ELSE [name |-> "Ethereum", rpcUrl |-> "https://eth-mainnet.public.blastapi.io",
              mode |-> "uniswap", factory |-> <<"1", "F", "9">>,
              feeTiers |-> <<500, 3000, 10000, 100>>]]

\* CHAIN_CONFIG[chainId] is undefined (falsy) for every other chain id.
HasConfig(chainId) == chainId \in DOMAIN CHAIN_CONFIG

\* ethers.constants.AddressZero
ZERO == <<"0", "0", "0">>

(* ------------------------------ outcomes ------------------------------ *)

\* null (the model writes it as the empty sequence).
Null == << >>

Resolved(v) == [ok |-> TRUE, v |-> v]
Rejected(msg) == [ok |-> FALSE, err |-> msg]

\* promise.catch(() => default)
Catch(outcome, default) == IF outcome.ok THEN outcome ELSE Resolved(default)

(* ----------------------------- arithmetic ----------------------------- *)

Max(a, b) == IF a >= b THEN a ELSE b
Min(a, b) == IF a <= b THEN a ELSE b

\* Math.floor of x/d for d > 0 (\div of the Integers module rounds down).
Floor(x, d) == x \div d

\* <<q, r>> with a*b = q*c + r and 0 <= r < c, for a >= 0, b >= 0, c > 0,
\* computed bit by bit so that no intermediate product leaves the integers
\* of the model checker.  The singleton sets bind each operand and each
\* half-result to its value once, so that it is not recomputed at every use
\* when the operator is evaluated inside ENABLED.
RECURSIVE MulDivQR(_, _, _)
MulDivQR(a, b, c) ==
    IF a = 0 THEN <<0, 0>>
    ELSE CHOOSE qr \in {LET t == 2 * h[2] + (a % 2) * b
                         IN  <<2 * h[1] + (t \div c), t % c>> :
                         h \in {MulDivQR(half, b, c) : half \in {a \div 2}}} : TRUE

MulDiv(a, b, c) ==
    CHOOSE q \in {MulDivQR(x, y, z)[1] : x \in {a}, y \in {b}, z \in {c}} : TRUE

(* ------------------------------ addresses ----------------------------- *)

\* One character of String.prototype.toLowerCase.
LowerChar(c) ==
    CASE c = "A" -> "a" [] c = "B" -> "b" [] c = "C" -> "c"
      [] c = "D" -> "d" [] c = "E" -> "e" [] c = "F" -> "f"
      [] OTHER -> c

ToLowerCase(addr) == [i \in DOMAIN addr |-> LowerChar(addr[i])]

(* --------------------------- provider cache --------------------------- *)

\* No rpcUrl option: undefined, or the empty string, both falsy.
NoRpc == ""

\* A key that holds the chain id next to the override.
ProviderKeyPerChain(chainId, rpcUrl) ==
    IF rpcUrl # NoRpc THEN rpcUrl \o "#" \o ToString(chainId) ELSE ToString(chainId)

\* const key = rpcUrl || chainId, as a property name of the `providers` object.
ProviderKey(chainId, rpcUrl) == IF rpcUrl # NoRpc THEN rpcUrl ELSE ToString(chainId)

\* Whether getProvider(chainId, rpcUrl) throws 'Unsupported chain' with the
\* cache `cache`.
GetProviderThrows(cache, chainId, rpcUrl) ==
    /\ ProviderKey(chainId, rpcUrl) \notin DOMAIN cache
    /\ ~HasConfig(chainId)

\* A cache that stores a newly constructed connection on every call.
GetProviderCacheFresh(cache, count, chainId, rpcUrl) ==
    LET key == ProviderKey(chainId, rpcUrl)
    IN  [k \in DOMAIN cache \cup {key} |->
            IF k = key THEN [id  |-> count + 1,
                             url |-> IF rpcUrl # NoRpc THEN rpcUrl
                                     ELSE CHAIN_CONFIG[chainId].rpcUrl]
            ELSE cache[k]]

\* The cache after getProvider(chainId, rpcUrl) returned; `count` is the
\* number of connections constructed so far.
GetProviderCache(cache, count, chainId, rpcUrl) ==
    LET key == ProviderKey(chainId, rpcUrl)
    IN  IF key \in DOMAIN cache THEN cache
        ELSE cache @@ (key :> [id  |-> count + 1,
                               url |-> IF rpcUrl # NoRpc THEN rpcUrl
                                       ELSE CHAIN_CONFIG[chainId].rpcUrl])

\* The number of connections constructed, after the same call.
GetProviderMade(cache, count, chainId, rpcUrl) ==
    IF ProviderKey(chainId, rpcUrl) \in DOMAIN cache THEN count ELSE count + 1

(* ------------------------------ findPool ------------------------------ *)


\* The lookups findPool issues on the algebra protocol, given the outcomes
\* `first` of poolByPair(tokenA, tokenB) and `second` of
\* poolByPair(tokenB, tokenA): the swapped lookup is issued when the first
\* gave the zero address (or failed, which .catch turns into ZERO).
\* A findPool that issues both orderings whatever the first one gave.
AlgebraLookupsBoth(tokenA, tokenB, first) ==
    << <<"poolByPair", tokenA, tokenB>>, <<"poolByPair", tokenB, tokenA>> >>

AlgebraLookups(tokenA, tokenB, first) ==
    IF Catch(first, ZERO).v = ZERO
    THEN << <<"poolByPair", tokenA, tokenB>>, <<"poolByPair", tokenB, tokenA>> >>
    ELSE << <<"poolByPair", tokenA, tokenB>> >>

\* A findPool that gives up after the first ordering.
FindPoolAlgebraFirstOnly(first, second) ==
    IF Catch(first, ZERO).v = ZERO THEN Null ELSE Catch(first, ZERO).v

FindPoolAlgebra(first, second) ==
    LET pool1 == Catch(first, ZERO).v
        pool  == IF pool1 = ZERO THEN Catch(second, ZERO).v ELSE pool1
    IN  IF pool = ZERO THEN Null ELSE pool

\* results.find(r => r !== ZERO) over the fee tiers in their declared order;
\* `from` is the first index looked at.
RECURSIVE FindNonZero(_, _)
FindNonZero(results, from) ==
    IF from > Len(results) THEN Null
    ELSE IF results[from] # ZERO THEN results[from]
    ELSE FindNonZero(results, from + 1)

UniswapLookups(tokenA, tokenB, feeTiers) ==
    [i \in DOMAIN feeTiers |-> <<"getPool", tokenA, tokenB, feeTiers[i]>>]

\* When the i-th promise of a Promise.all settles, as a rank among them: the
\* rank the environment gave its outcome, and the call order otherwise.
SettledAt(outcomes, i) == IF "at" \in DOMAIN outcomes[i] THEN outcomes[i].at ELSE i

\* An array that collects the values in the order in which they arrive.
PromiseAllAsSettled(values, at) ==
    [k \in DOMAIN values |-> values[CHOOSE i \in DOMAIN values : at[i] = k]]

\* Promise.all: each promise stores its value at its own index when it
\* settles, so the array is in call order whatever the ranks `at` are.
RECURSIVE StoreSettled(_, _, _, _)
StoreSettled(values, at, slots, k) ==
    IF k > Len(values) THEN slots
    ELSE LET i == CHOOSE j \in DOMAIN values : at[j] = k
         IN  StoreSettled(values, at, [slots EXCEPT ![i] = values[i]], k + 1)

PromiseAll(values, at) ==
    StoreSettled(values, at, [i \in DOMAIN values |-> Null], 1)

FindPoolUniswap(outcomes) ==
    FindNonZero(PromiseAll([i \in DOMAIN outcomes |-> Catch(outcomes[i], ZERO).v],
                           [i \in DOMAIN outcomes |-> SettledAt(outcomes, i)]), 1)

\* findPool's result on chain `chainId` from the outcomes of its lookups:
\* <<first, second>> on algebra, one outcome per fee tier on uniswap.
FindPool(chainId, outcomes) ==
    IF CHAIN_CONFIG[chainId].mode = "algebra"
    THEN FindPoolAlgebra(outcomes[1], outcomes[2])
    ELSE IF CHAIN_CONFIG[chainId].mode = "uniswap"
    THEN FindPoolUniswap(outcomes)
    ELSE Null

FindPoolLookups(chainId, tokenA, tokenB, outcomes) ==
    IF CHAIN_CONFIG[chainId].mode = "algebra"
    THEN AlgebraLookups(tokenA, tokenB, outcomes[1])
    ELSE IF CHAIN_CONFIG[chainId].mode = "uniswap"
    THEN UniswapLookups(tokenA, tokenB, CHAIN_CONFIG[chainId].feeTiers)
    ELSE << >>

(* --------------------------- detectInversion -------------------------- *)

\* A comparison of the two addresses as they are written.
ShouldInvertExact(token0, companyTokenAddress) == token0 # companyTokenAddress

\* shouldInvert of detectInversion, from the address token0() returned.
ShouldInvert(token0, companyTokenAddress) ==
    ToLowerCase(token0) # ToLowerCase(companyTokenAddress)

(* ------------------------------ the oracle ---------------------------- *)

\* Fixed-point prices: the value p stands for p / PriceScale.
PriceScale == 10^8

\* Number.isFinite(x) is false for Infinity (and NaN).
Infinity == 2147483647

IsFinite(x) == x < Infinity

\* 1.0001 = TickBaseNum / TickBaseDen
TickBaseNum == 10001
TickBaseDen == 10000

\* The largest whole tick whose power 1.0001^tick is a finite double, and the
\* smallest whose power is a positive double.
PowOverflowTick == 7098182
PowUnderflowTick == -7451704

\* 1.0001^n for a whole tick n, in fixed point.
RECURSIVE PriceAtTick(_)
PriceAtTick(n) ==
    IF n = 0 THEN PriceScale
    ELSE IF n > 0 THEN MulDiv(PriceAtTick(n - 1), TickBaseNum, TickBaseDen)
    ELSE MulDiv(PriceAtTick(n + 1), TickBaseDen, TickBaseNum)

\* Math.pow(1.0001, num/den) for den > 0: Infinity above the range of a
\* double, 0 below it, and otherwise the fixed-point power, interpolated
\* between the two neighbouring whole ticks (exact to one unit of the fixed
\* point).
Pow(num, den) ==
    LET lo   == Floor(num, den)
        frac == num - lo * den
    IN  IF lo > PowOverflowTick THEN Infinity
        ELSE IF lo < PowUnderflowTick THEN 0
        ELSE IF frac = 0 THEN PriceAtTick(lo)
        ELSE PriceAtTick(lo) + MulDiv(PriceAtTick(lo + 1) - PriceAtTick(lo), frac, den)

\* 1 / rawPrice in fixed point.
Reciprocal(rawPrice) == MulDiv(PriceScale, PriceScale, rawPrice)

\* A window rounded up to the next whole second.
SecondsWindowCeil(secondsAgo) == Max(1, Floor(secondsAgo + Sub - 1, Sub))

\* const secondsWindow = Math.max(1, Math.floor(secondsAgo)), in whole
\* seconds; secondsAgo is counted in 1/Sub s.
SecondsWindow(secondsAgo) == Max(1, Floor(secondsAgo, Sub))

\* The read calculatePoolTwap issues: the method and its secondsAgos argument.
OracleRead(chainId, poolAddress, secondsAgo) ==
    [method      |-> IF CHAIN_CONFIG[chainId].mode = "algebra"
                     THEN "getTimepoints" ELSE "observe",
     pool        |-> poolAddress,
     secondsAgos |-> <<SecondsWindow(secondsAgo), 0>>]

\* A computation that takes the later reading from the first place of the
\* reply and the earlier one from the second.
CalculatePoolTwapSwapped(secondsAgo, shouldInvert, reply) ==
    IF ~reply.ok THEN reply
    ELSE LET tickDelta     == reply.v[1] - reply.v[2]
             secondsWindow == SecondsWindow(secondsAgo)
             rawPrice      == Pow(tickDelta, secondsWindow)
         IN  IF ~IsFinite(rawPrice) \/ rawPrice <= 0
             THEN Rejected("Invalid price from oracle")
             ELSE Resolved([rawPrice        |-> rawPrice,
                            normalizedPrice |-> IF shouldInvert THEN Reciprocal(rawPrice)
                                                ELSE rawPrice,
                            averageTick     |-> [num |-> tickDelta, den |-> secondsWindow],
                            secondsWindow   |-> secondsWindow,
                            inverted        |-> shouldInvert])

\* A computation that also refuses every price that is not above 1.
CalculatePoolTwapAboveOne(secondsAgo, shouldInvert, reply) ==
    IF ~reply.ok THEN reply
    ELSE LET tickDelta     == reply.v[2] - reply.v[1]
             secondsWindow == SecondsWindow(secondsAgo)
             rawPrice      == Pow(tickDelta, secondsWindow)
         IN  IF ~IsFinite(rawPrice) \/ rawPrice <= PriceScale
             THEN Rejected("Invalid price from oracle")
             ELSE Resolved([rawPrice        |-> rawPrice,
                            normalizedPrice |-> IF shouldInvert THEN Reciprocal(rawPrice)
                                                ELSE rawPrice,
                            averageTick     |-> [num |-> tickDelta, den |-> secondsWindow],
                            secondsWindow   |-> secondsWindow,
                            inverted        |-> shouldInvert])

\* calculatePoolTwap's outcome from the outcome `reply` of its oracle read,
\* whose value is the tickCumulatives array (index 0 of the code is index 1
\* here).
CalculatePoolTwap(secondsAgo, shouldInvert, reply) ==
    IF ~reply.ok THEN reply
    ELSE LET tickCumulatives == reply.v
             latest        == tickCumulatives[2]
             oldest        == tickCumulatives[1]
             tickDelta     == latest - oldest
             secondsWindow == SecondsWindow(secondsAgo)
             rawPrice      == Pow(tickDelta, secondsWindow)
         IN  IF ~IsFinite(rawPrice) \/ rawPrice <= 0
             THEN Rejected("Invalid price from oracle")
             ELSE Resolved([rawPrice        |-> rawPrice,
                            normalizedPrice |-> IF shouldInvert THEN Reciprocal(rawPrice)
                                                ELSE rawPrice,
                            averageTick     |-> [num |-> tickDelta, den |-> secondsWindow],
                            secondsWindow   |-> secondsWindow,
                            inverted        |-> shouldInvert])

(* ---------------------------- formatDuration -------------------------- *)

\* The % of the code: the remainder has the sign of the dividend.
Rem(a, b) == IF a >= 0 THEN a % b ELSE -((-a) % b)

\* parts.join(' ')
RECURSIVE Join(_)
Join(parts) ==
    IF Len(parts) = 0 THEN ""
    ELSE IF Len(parts) = 1 THEN parts[1]
    ELSE parts[1] \o " " \o Join(Tail(parts))

\* formatDuration(seconds), seconds counted in 1/Sub s.
FormatDuration(seconds) ==
    LET d == Floor(seconds, 86400 * Sub)
        h == Floor(Rem(seconds, 86400 * Sub), 3600 * Sub)
        m == Floor(Rem(seconds, 3600 * Sub), 60 * Sub)
        s == Floor(Rem(seconds, 60 * Sub), Sub)
        parts == (IF d > 0 THEN <<ToString(d) \o "d">> ELSE << >>)
              \o (IF h > 0 THEN <<ToString(h) \o "h">> ELSE << >>)
              \o (IF m > 0 THEN <<ToString(m) \o "m">> ELSE << >>)
              \o (IF s > 0 THEN <<ToString(s) \o "s">> ELSE << >>)
    IN  IF Join(parts) = "" THEN "0s" ELSE Join(parts)

(* ----------------------------- the window ----------------------------- *)

\* `days` is the rational days / DaysDen.
DaysDen == 86400 * Sub

\* const days = options.days || 5
EffectiveDays(optDays) == IF optDays = 0 THEN 5 * DaysDen ELSE optDays

\* A window that by default ends one day after the call.
EffectiveEndNextDay(optEnd, now) == IF optEnd = 0 THEN now + DaysDen ELSE optEnd

\* const endTimestamp = options.endTimestamp || now
EffectiveEnd(optEnd, now) == IF optEnd = 0 THEN now ELSE optEnd

\* const twapDurationSeconds = days * 86400, counted in 1/Sub s: the product
\* (days / DaysDen) * 86400 * Sub, and DaysDen is a multiple of 86400 * Sub.
TwapDurationSeconds(days) == days \div (DaysDen \div (86400 * Sub))

TwapStartTimestamp(endTimestamp, days) == endTimestamp - TwapDurationSeconds(days)

\* A status whose window is still open at endTimestamp itself.
StatusOpenAtEnd(now, twapStartTimestamp, endTimestamp) ==
    IF now < twapStartTimestamp THEN "NOT_STARTED"
    ELSE IF now > endTimestamp THEN "ENDED"
    ELSE "ACTIVE"

\* A status that is ENDED at endTimestamp only.
StatusEndedAtEndOnly(now, twapStartTimestamp, endTimestamp) ==
    IF now < twapStartTimestamp THEN "NOT_STARTED"
    ELSE IF now = endTimestamp THEN "ENDED"
    ELSE "ACTIVE"

Status(now, twapStartTimestamp, endTimestamp) ==
    IF now < twapStartTimestamp THEN "NOT_STARTED"
    ELSE IF now >= endTimestamp THEN "ENDED"
    ELSE "ACTIVE"

\* A lookback that is the time elapsed since the start, whatever the status.
SecondsAgoElapsed(status, now, twapStartTimestamp, twapDurationSeconds) ==
    now - twapStartTimestamp

\* const timeSinceStart = Math.min(now - twapStartTimestamp, twapDurationSeconds);
\* const secondsAgo = status === 'ENDED' ? twapDurationSeconds : timeSinceStart;
SecondsAgo(status, now, twapStartTimestamp, twapDurationSeconds) ==
    IF status = "ENDED" THEN twapDurationSeconds
    ELSE Min(now - twapStartTimestamp, twapDurationSeconds)

\* A winner whose thresholds are inclusive.
WinnerInclusive(spread) ==
    IF spread >= PriceScale \div 10^8 THEN "YES"
    ELSE IF spread <= -(PriceScale \div 10^8) THEN "NO"
    ELSE "TIE"

\* spread > 1e-8 ? 'YES' : spread < -1e-8 ? 'NO' : 'TIE'
Epsilon == PriceScale \div 10^8

Winner(spread) ==
    IF spread > Epsilon THEN "YES"
    ELSE IF spread < -Epsilon THEN "NO"
    ELSE "TIE"

(* ------------------------- the chain (environment) -------------------- *)

ProposalAddress == <<"9", "f", "A">>

\* What the proposal contract answers: wrappedOutcome(0..3),
\* collateralToken1(), collateralToken2(), marketName().
OnChainTokens ==
    [yesCompany    |-> <<"A", "a", "1">>,
     noCompany     |-> <<"B", "b", "2">>,
     yesCurrency   |-> <<"C", "c", "3">>,
     noCurrency    |-> <<"D", "d", "4">>,
     companyToken  |-> <<"E", "e", "5">>,
     currencyToken |-> <<"F", "f", "6">>,
     marketName    |-> "Will GIP-145 be approved?"]

\* symbol() and decimals() of the two collateral tokens.
OnChainSymbol(address) == IF address = OnChainTokens.companyToken THEN "GNO" ELSE "USDC"
OnChainDecimals(address) == IF address = OnChainTokens.companyToken THEN 18 ELSE 6

\* The address of the pool of the i-th pair of discoverPools (1 and 2 are the
\* YES and NO conditional pools); on uniswap, t is the index of its fee tier.
PoolAddress(i, t) == <<"e", ToString(i), ToString(t)>>

RpcError == Rejected("could not detect network")

(* ------------------------------- state -------------------------------- *)

VARIABLES
    scope,       \* which part of the environment this behaviour varies (see Scopes)
    providers,   \* the provider cache: key -> connection
    made,        \* connections constructed so far
    pc,          \* where the request in progress stands
    req,         \* its arguments, with `now` as read at line 549
    provider,    \* the connection it uses
    tokens,      \* getProposalTokens' result
    pools,       \* discoverConditionalPools' result
    inversion,   \* [yes, no]: detectInversion's results
    result,      \* calculateTwap's result object, as built so far
    poolResults, \* discoverPools' poolResults
    twaps,       \* [yes, no]: how the two calculatePoolTwap calls settled
    reads,       \* the on-chain reads the request issued, with their outcomes
    outcome,     \* how the request ended: returned a value or threw
    got,         \* what the last call of getProvider from outside the request gave
    clock,       \* the wall-clock time of the last call of calculateTwap
    seen,        \* the statuses that the calls returned so far have reported
    sent         \* what the transport of the request in progress has answered

vars == <<scope, providers, made, pc, req, provider, tokens, pools, inversion,
          result, poolResults, twaps, reads, outcome, got, clock, seen, sent>>

\* A behaviour varies one part of the environment and keeps the others
\* nominal, which bounds the product of the input sets:
\*   inputs  the arguments of the call (chain, rpcUrl, endTimestamp, days, now)
\*   tokens  the outcomes of the proposal and token-metadata reads
\*   pools   the outcomes of the factory lookups and of token0()
\*   tiers   the outcomes of the fee-tier lookups and the order they settle in
\*   oracle  the outcomes of token0() and of the oracle reads
\*   cache   several requests in a row, over chains and rpcUrl overrides
\*   clock   several requests in a row, over windows and times of the call
Scopes == {"inputs", "tokens", "pools", "tiers", "oracle", "cache", "clock", "transport"}

None == [kind |-> "none"]
Returned(v) == [kind |-> "returned", v |-> v]
Thrown(msg) == [kind |-> "thrown", v |-> msg]

NoReq == [op |-> "none"]

Read(fn, to, args, out) == [fn |-> fn, to |-> to, args |-> args, outcome |-> out]

(* ------------------------------- inputs ------------------------------- *)

\* A chain id that CHAIN_CONFIG does not hold.
UnsupportedChain == 5

\* The endTimestamp the callers pass, in seconds.
EndTs == 10^6

FiveDays == 5 * 86400

\* Whole seconds, counted in 1/Sub s.
Secs(n) == n * Sub

ChainIds == IF scope \in {"inputs", "cache"}
            THEN SupportedChains \cup {UnsupportedChain}
            ELSE IF scope = "tiers" THEN {Ethereum}
            ELSE IF scope = "clock" THEN {Gnosis}
            ELSE SupportedChains

\* options.rpcUrl: none, or an override; where the cache is studied the
\* override spells the default URL of Gnosis.
RpcUrls == IF scope = "inputs" THEN {NoRpc, "https://my-rpc.com"}
           ELSE IF scope = "cache" THEN {NoRpc, CHAIN_CONFIG[Gnosis].rpcUrl}
           ELSE {NoRpc}

\* options.endTimestamp: 0 stands for "not given" (undefined and 0 are both falsy).
EndTimestamps == IF scope = "inputs" THEN {0, Secs(EndTs)} ELSE {Secs(EndTs)}

\* options.days as the numerator of days/DaysDen; 0 stands for "not given".
\* The values are a window half a second longer than 5 days - 10000 s, and a
\* negative one of -1000 s.
Days == IF scope = "inputs"
        THEN {0, Secs(FiveDays - 10000) + 1, -Secs(1000)}
        ELSE IF scope = "clock" THEN {5 * DaysDen, -Secs(1000)}
        ELSE {0}

\* Math.floor(Date.now() / 1000) at the call, counted in 1/Sub s.
Nows == CASE scope = "inputs" ->
               {Secs(EndTs - FiveDays - 10), Secs(EndTs - FiveDays),
                Secs(EndTs - FiveDays + 10000), Secs(EndTs), Secs(EndTs + 1000)}
          [] scope = "oracle" ->
               {Secs(EndTs - FiveDays), Secs(EndTs - FiveDays + 600),
                Secs(EndTs - FiveDays + 10000), Secs(EndTs + 1000)}
          [] scope = "pools" -> {Secs(EndTs - FiveDays - 10), Secs(EndTs + 1000)}
          [] scope = "clock" ->
               {Secs(EndTs - FiveDays - 10), Secs(EndTs - FiveDays + 10000),
                Secs(EndTs), Secs(EndTs + 1000)}
          [] OTHER -> {Secs(EndTs + 1000)}

(* ------------------------ outcomes of the reads ----------------------- *)

TokenReadNames ==
    <<"wrappedOutcome(0)", "wrappedOutcome(1)", "wrappedOutcome(2)", "wrappedOutcome(3)",
      "collateralToken1", "collateralToken2", "marketName">>

\* The reads of getProposalTokens that have no .catch.
MandatoryTokenReads == {TokenReadNames[i] : i \in 1..6}

\* The sets of proposal reads that fail.
TokenFailures ==
    IF scope = "tokens"
    THEN {{}} \cup {{TokenReadNames[i]} : i \in DOMAIN TokenReadNames}
              \cup {{"wrappedOutcome(1)", "collateralToken2"}, {"wrappedOutcome(3)", "marketName"}}
    ELSE {{}}

TokenAnswer(name) ==
    CASE name = "wrappedOutcome(0)" -> OnChainTokens.yesCompany
      [] name = "wrappedOutcome(1)" -> OnChainTokens.noCompany
      [] name = "wrappedOutcome(2)" -> OnChainTokens.yesCurrency
      [] name = "wrappedOutcome(3)" -> OnChainTokens.noCurrency
      [] name = "collateralToken1"  -> OnChainTokens.companyToken
      [] name = "collateralToken2"  -> OnChainTokens.currencyToken
      [] name = "marketName"        -> OnChainTokens.marketName

\* The outcome of each proposal read when the reads in `failed` fail.
TokenOutcomes(failed) ==
    [name \in {TokenReadNames[i] : i \in DOMAIN TokenReadNames} |->
        IF name \in failed THEN Rejected("call revert exception: " \o name)
        ELSE Resolved(TokenAnswer(name))]

\* The sets of token-metadata reads that fail.
InfoReadNames == <<"company.symbol", "company.decimals", "currency.symbol", "currency.decimals">>

InfoFailures ==
    IF scope = "tokens"
    THEN {{}} \cup {{InfoReadNames[i]} : i \in DOMAIN InfoReadNames}
              \cup {{InfoReadNames[i] : i \in DOMAIN InfoReadNames}}
    ELSE {{}}

\* The outcomes of the lookups of findPool for the i-th pair: <<first, second>>
\* on algebra, one per fee tier on uniswap.  The nominal pool is found by the
\* first lookup on algebra and in the second fee tier on uniswap; the four
\* prediction pairs (i > 2) are either found so or absent.
\* The orders in which the four fee-tier lookups settle, as the rank of each
\* tier: in call order, in reverse, and two mixed ones.
SettleOrders == {<<1, 2, 3, 4>>, <<4, 3, 2, 1>>, <<2, 4, 3, 1>>, <<3, 1, 4, 2>>}

\* The outcomes `outs`, the j-th settling at[j]-th.
Settling(outs, at) == [j \in DOMAIN outs |-> outs[j] @@ [at |-> at[j]]]

LookupOutcomes(chainId, i) ==
    LET A(t) == Resolved(PoolAddress(i, t))
        Z    == Resolved(ZERO)
        F    == RpcError
    IN  IF CHAIN_CONFIG[chainId].mode = "algebra"
        THEN CASE scope = "pools" /\ i <= 2 ->
                    {<<A(0), Z>>, <<Z, A(0)>>, <<F, A(0)>>, <<Z, Z>>, <<Z, F>>, <<F, Z>>, <<F, F>>}
               [] scope = "pools" /\ i > 2 -> {<<A(0), Z>>, <<Z, Z>>}
               [] OTHER -> {<<A(0), Z>>}
        ELSE CASE scope = "pools" /\ i <= 2 ->
                    {<<Z, Z, Z, Z>>, <<F, F, F, F>>, <<A(1), Z, Z, Z>>, <<Z, A(2), Z, A(4)>>,
                     <<F, Z, A(3), Z>>, <<Z, F, Z, A(4)>>, <<A(1), A(2), A(3), A(4)>>}
               [] scope = "pools" /\ i > 2 -> {<<Z, A(2), Z, Z>>, <<Z, Z, Z, Z>>}
               [] scope = "tiers" /\ i = 1 ->
                    {Settling(outs, at) :
                        outs \in {<<Z, Z, Z, Z>>, <<F, F, F, F>>, <<Z, A(2), Z, A(4)>>,
                                  <<F, Z, A(3), A(4)>>, <<A(1), A(2), A(3), A(4)>>},
                        at \in SettleOrders}
               [] OTHER -> {<<Z, A(2), Z, Z>>}

\* A token0() call that the pool contract does not answer.
Token0Error == Rejected("call revert exception: token0")

\* The outcomes of pool.token0() for a pool whose company token is `company`
\* and whose currency token is `currency`; nominally the YES pool has the
\* company token first and the NO pool the currency token.
Token0Outcomes(side, company, currency) ==
    CASE scope = "pools"  -> {Resolved(company), Resolved(ToLowerCase(company)),
                              Resolved(currency), Token0Error}
      [] scope = "oracle" -> {Resolved(company), Resolved(ToLowerCase(company)),
                              Resolved(currency)}
      [] OTHER -> IF side = "yes" THEN {Resolved(company)} ELSE {Resolved(currency)}

\* The cumulative tick the oracle reports at the older of the two offsets.
CumulativeBase == 1000

\* An average tick beyond the range of Math.pow(1.0001, .).
HugeTick == 8000000

\* The outcomes of the oracle read over a window of w seconds: the reply
\* <<tickCumulatives[0], tickCumulatives[1]>>, or a failure.  Nominally the
\* YES pool averaged one tick and the NO pool none.
OracleOutcomes(side, w) ==
    LET Reply(d) == Resolved(<<CumulativeBase, CumulativeBase + d>>)
    IN  CASE scope = "oracle" ->
               {RpcError} \cup {Reply(d) : d \in {0, 1, 2, w, -w, 7 * w, -7 * w}}
                          \cup (IF w <= MaxHugeWindow
                                THEN {Reply(HugeTick * w), Reply(-HugeTick * w)} ELSE {})
          [] scope = "inputs" ->
               {RpcError, Reply(IF side = "yes" THEN w ELSE 0)}
          [] OTHER -> {Reply(IF side = "yes" THEN w ELSE 0)}

(* ---------------------------- calculateTwap --------------------------- *)

\* A calculateTwap that leaves the chain check to getProvider.
NoChainCheck(chainId) == FALSE

\* const config = CHAIN_CONFIG[chainId]; if (!config) throw ...
UnsupportedChainCheck(chainId) == ~HasConfig(chainId)

\* The window of a request.
ReqEnd(r) == EffectiveEnd(r.endTimestamp, r.now)
ReqDays(r) == EffectiveDays(r.days)
ReqDuration(r) == TwapDurationSeconds(ReqDays(r))
ReqStart(r) == TwapStartTimestamp(ReqEnd(r), ReqDays(r))
ReqStatus(r) == Status(r.now, ReqStart(r), ReqEnd(r))
ReqSecondsAgo(r) == SecondsAgo(ReqStatus(r), r.now, ReqStart(r), ReqDuration(r))

\* Lines 545-551 and 717-720: the chain check, then getProvider.
Enter(r, message) ==
    /\ pc = "idle"
    /\ req' = r
    /\ IF UnsupportedChainCheck(r.chainId)
       THEN /\ pc' = "done"
            /\ outcome' = Thrown(message)
            /\ UNCHANGED <<providers, made, provider>>
       ELSE IF GetProviderThrows(providers, r.chainId, r.rpcUrl)
       THEN /\ pc' = "done"
            /\ outcome' = Thrown("Unsupported chain " \o ToString(r.chainId))
            /\ UNCHANGED <<providers, made, provider>>
       ELSE /\ pc' = "tokens"
            /\ providers' = GetProviderCache(providers, made, r.chainId, r.rpcUrl)
            /\ made' = GetProviderMade(providers, made, r.chainId, r.rpcUrl)
            /\ provider' = providers'[ProviderKey(r.chainId, r.rpcUrl)]
            /\ UNCHANGED outcome
    /\ UNCHANGED <<scope, got, seen, tokens, pools, inversion, result, poolResults, twaps,
                   reads>>

CalculateTwap(chainId, rpcUrl, endTimestamp, days, now) ==
    /\ now >= clock
    /\ clock' = now
    /\ Enter([op |-> "calculateTwap", proposalAddress |-> ProposalAddress,
              chainId |-> chainId, rpcUrl |-> rpcUrl,
              endTimestamp |-> endTimestamp, days |-> days, now |-> now],
             "Unsupported chain " \o ToString(chainId))

DiscoverPools(chainId, rpcUrl) ==
    /\ UNCHANGED clock
    /\ Enter([op |-> "discoverPools", proposalAddress |-> ProposalAddress,
              chainId |-> chainId, rpcUrl |-> rpcUrl],
             "Unsupported chain " \o ToString(chainId) \o ". Use 100 (Gnosis) or 1 (Ethereum)")

\* A result whose market name is always the fallback.
ProposalTokensNameless(outs) ==
    [yesCompany    |-> outs["wrappedOutcome(0)"].v,
     noCompany     |-> outs["wrappedOutcome(1)"].v,
     yesCurrency   |-> outs["wrappedOutcome(2)"].v,
     noCurrency    |-> outs["wrappedOutcome(3)"].v,
     companyToken  |-> outs["collateralToken1"].v,
     currencyToken |-> outs["collateralToken2"].v,
     marketName    |-> "Unknown"]

\* getProposalTokens' result when no mandatory read failed.
ProposalTokens(outs) ==
    [yesCompany    |-> outs["wrappedOutcome(0)"].v,
     noCompany     |-> outs["wrappedOutcome(1)"].v,
     yesCurrency   |-> outs["wrappedOutcome(2)"].v,
     noCurrency    |-> outs["wrappedOutcome(3)"].v,
     companyToken  |-> outs["collateralToken1"].v,
     currencyToken |-> outs["collateralToken2"].v,
     marketName    |-> Catch(outs["marketName"], "Unknown").v]


\* The mandatory reads that rejected: Promise.all rejects with the one that
\* rejected first.
RejectedTokenReads(outs) == {name \in MandatoryTokenReads : ~outs[name].ok}

\* getProposalTokens: the seven reads are issued together; `first` is the
\* mandatory read that rejected first, if any did.
GetProposalTokens(outs, first) ==
    /\ pc = "tokens"
    /\ reads' = reads \o [i \in DOMAIN TokenReadNames |->
                            Read(TokenReadNames[i], req.proposalAddress, << >>,
                                 outs[TokenReadNames[i]])]
    /\ IF RejectedTokenReads(outs) # {}
       THEN /\ first \in RejectedTokenReads(outs)
            /\ pc' = "done"
            /\ outcome' = Thrown(outs[first].err)
            /\ UNCHANGED tokens
       ELSE /\ tokens' = ProposalTokens(outs)
            /\ pc' = IF req.op = "calculateTwap" THEN "pools" ELSE "scan"
            /\ UNCHANGED outcome
    /\ UNCHANGED <<scope, sent, got, clock, seen, twaps, providers, made, req, provider, pools, inversion, result,
                   poolResults>>

\* The reads of one findPool call, with their outcomes.
LookupReads(chainId, tokenA, tokenB, outs) ==
    LET calls == FindPoolLookups(chainId, tokenA, tokenB, outs)
    IN  [i \in DOMAIN calls |->
            Read(calls[i][1], CHAIN_CONFIG[chainId].factory, Tail(calls[i]), outs[i])]

\* A result that reports both pools as missing as soon as one is.
MissingPoolsResultBothNull(r, toks, found) ==
    [proposalAddress |-> r.proposalAddress,
     chainId         |-> r.chainId,
     chain           |-> CHAIN_CONFIG[r.chainId].name,
     marketName      |-> toks.marketName,
     error           |-> "Could not find YES/NO conditional pools on-chain",
     pools           |-> [yes |-> Null, no |-> Null],
     tokens          |-> [yesCompany    |-> toks.yesCompany,
                          noCompany     |-> toks.noCompany,
                          yesCurrency   |-> toks.yesCurrency,
                          noCurrency    |-> toks.noCurrency,
                          companyToken  |-> toks.companyToken,
                          currencyToken |-> toks.currencyToken]]

\* Lines 576-591: the result when a conditional pool is missing.
MissingPoolsResult(r, toks, found) ==
    [proposalAddress |-> r.proposalAddress,
     chainId         |-> r.chainId,
     chain           |-> CHAIN_CONFIG[r.chainId].name,
     marketName      |-> toks.marketName,
     error           |-> "Could not find YES/NO conditional pools on-chain",
     pools           |-> [yes |-> found.yesPool, no |-> found.noPool],
     tokens          |-> [yesCompany    |-> toks.yesCompany,
                          noCompany     |-> toks.noCompany,
                          yesCurrency   |-> toks.yesCurrency,
                          noCurrency    |-> toks.noCurrency,
                          companyToken  |-> toks.companyToken,
                          currencyToken |-> toks.currencyToken]]

\* discoverConditionalPools (the two findPool calls run concurrently; the log
\* lists the YES lookups first) and the return of lines 575-592.
DiscoverConditionalPools(yesOuts, noOuts) ==
    /\ pc = "pools"
    /\ LET found == [yesPool |-> FindPool(req.chainId, yesOuts),
                     noPool  |-> FindPool(req.chainId, noOuts)]
       IN  /\ pools' = found
           /\ reads' = reads
                  \o LookupReads(req.chainId, tokens.yesCompany, tokens.yesCurrency, yesOuts)
                  \o LookupReads(req.chainId, tokens.noCompany, tokens.noCurrency, noOuts)
           /\ IF found.yesPool = Null \/ found.noPool = Null
              THEN /\ pc' = "done"
                   /\ outcome' = Returned(MissingPoolsResult(req, tokens, found))
              ELSE /\ pc' = "inversion"
                   /\ UNCHANGED outcome
    /\ UNCHANGED <<scope, sent, got, clock, seen, twaps, providers, made, req, provider, tokens, inversion, result,
                   poolResults>>

\* detectInversion's result from the outcome value of pool.token0().
DetectInversion(token0, companyTokenAddress) ==
    [shouldInvert |-> ShouldInvert(token0, companyTokenAddress), token0 |-> token0]

\* Orientation reads whose failure is taken for "company token first".
DetectInversionsLenient(yesToken0, noToken0) ==
    /\ pc = "inversion"
    /\ reads' = reads \o <<Read("token0", pools.yesPool, << >>, yesToken0),
                           Read("token0", pools.noPool, << >>, noToken0)>>
    /\ inversion' = [yes |-> DetectInversion(Catch(yesToken0, tokens.yesCompany).v,
                                             tokens.yesCompany),
                     no  |-> DetectInversion(Catch(noToken0, tokens.noCompany).v,
                                             tokens.noCompany)]
    /\ pc' = "info"
    /\ UNCHANGED <<scope, sent, got, clock, seen, twaps, providers, made, req, provider, tokens, pools, result,
                   poolResults, outcome>>

\* Lines 599-602: the two detectInversion calls.
\* Orientation detection that is skipped while the window has not started.
DetectInversionsWhenStarted(yesToken0, noToken0) ==
    /\ pc = "inversion"
    /\ IF ReqStatus(req) = "NOT_STARTED"
       THEN /\ inversion' = [yes |-> DetectInversion(tokens.yesCompany, tokens.yesCompany),
                             no  |-> DetectInversion(tokens.noCompany, tokens.noCompany)]
            /\ pc' = "info"
            /\ UNCHANGED <<reads, outcome>>
       ELSE /\ reads' = reads \o <<Read("token0", pools.yesPool, << >>, yesToken0),
                                   Read("token0", pools.noPool, << >>, noToken0)>>
            /\ IF yesToken0.ok /\ noToken0.ok
               THEN /\ inversion' = [yes |-> DetectInversion(yesToken0.v, tokens.yesCompany),
                                     no  |-> DetectInversion(noToken0.v, tokens.noCompany)]
                    /\ pc' = "info"
                    /\ UNCHANGED outcome
               ELSE /\ pc' = "done"
                    /\ outcome' \in {Thrown(o.err) : o \in {x \in {yesToken0, noToken0} : ~x.ok}}
                    /\ UNCHANGED inversion
    /\ UNCHANGED <<scope, sent, got, clock, seen, twaps, providers, made, req, provider, tokens,
                   pools, result, poolResults>>

DetectInversions(yesToken0, noToken0) ==
    /\ pc = "inversion"
    /\ reads' = reads \o <<Read("token0", pools.yesPool, << >>, yesToken0),
                           Read("token0", pools.noPool, << >>, noToken0)>>
    /\ IF yesToken0.ok /\ noToken0.ok
       THEN /\ inversion' = [yes |-> DetectInversion(yesToken0.v, tokens.yesCompany),
                             no  |-> DetectInversion(noToken0.v, tokens.noCompany)]
            /\ pc' = "info"
            /\ UNCHANGED outcome
       ELSE /\ pc' = "done"
            /\ outcome' \in {Thrown(o.err) : o \in {x \in {yesToken0, noToken0} : ~x.ok}}
            /\ UNCHANGED inversion
    /\ UNCHANGED <<scope, sent, got, clock, seen, twaps, providers, made, req, provider, tokens, pools, result,
                   poolResults>>

\* getTokenInfo's result from the outcomes of symbol() and decimals().
\* Token metadata in which one failed read also discards the sibling's value.
GetTokenInfoTogether(address, symbol, decimals) ==
    [address  |-> address,
     symbol   |-> IF symbol.ok /\ decimals.ok THEN symbol.v ELSE "UNKNOWN",
     decimals |-> IF symbol.ok /\ decimals.ok THEN decimals.v ELSE 18]

GetTokenInfo(address, symbol, decimals) ==
    [address  |-> address,
     symbol   |-> Catch(symbol, "UNKNOWN").v,
     decimals |-> Catch(decimals, 18).v]

\* The outcomes of the four token-metadata reads when those in `failed` fail.
InfoOutcomes(toks, failed) ==
    [name \in {InfoReadNames[i] : i \in DOMAIN InfoReadNames} |->
        IF name \in failed THEN RpcError
        ELSE CASE name = "company.symbol"    -> Resolved(OnChainSymbol(toks.companyToken))
               [] name = "company.decimals"  -> Resolved(OnChainDecimals(toks.companyToken))
               [] name = "currency.symbol"   -> Resolved(OnChainSymbol(toks.currencyToken))
               [] name = "currency.decimals" -> Resolved(OnChainDecimals(toks.currencyToken))]

InfoReads(toks, outs) ==
    <<Read("symbol", toks.companyToken, << >>, outs["company.symbol"]),
      Read("decimals", toks.companyToken, << >>, outs["company.decimals"]),
      Read("symbol", toks.currencyToken, << >>, outs["currency.symbol"]),
      Read("decimals", toks.currencyToken, << >>, outs["currency.decimals"])>>

\* Lines 613-640: the result object (without its date strings).
BuildResult(r, toks, found, inv, companyInfo, currencyInfo) ==
    [proposalAddress |-> r.proposalAddress,
     chainId         |-> r.chainId,
     chain           |-> CHAIN_CONFIG[r.chainId].name,
     marketName      |-> toks.marketName,
     tokens          |-> [company     |-> companyInfo,
                          currency    |-> currencyInfo,
                          yesCompany  |-> toks.yesCompany,
                          noCompany   |-> toks.noCompany,
                          yesCurrency |-> toks.yesCurrency,
                          noCurrency  |-> toks.noCurrency],
     pools           |-> [yes |-> [address |-> found.yesPool, inverted |-> inv.yes.shouldInvert],
                          no  |-> [address |-> found.noPool, inverted |-> inv.no.shouldInvert]],
     twapWindow      |-> [startTimestamp  |-> ReqStart(r),
                          endTimestamp    |-> ReqEnd(r),
                          days            |-> ReqDays(r),
                          durationSeconds |-> ReqDuration(r)],
     status          |-> ReqStatus(r)]

\* A countdown to the end of the window instead of its start.
WithTimeUntilEnd(res, r) ==
    res @@ [timeUntilStart |-> [seconds |-> ReqEnd(r) - r.now,
                                human   |-> FormatDuration(ReqEnd(r) - r.now)]]

\* Lines 643-649.
WithTimeUntilStart(res, r) ==
    res @@ [timeUntilStart |-> [seconds |-> ReqStart(r) - r.now,
                                human   |-> FormatDuration(ReqStart(r) - r.now)]]

\* Lines 606-649: the token metadata, the result object and the NOT_STARTED
\* return.
GetTokenInfos(outs) ==
    /\ pc = "info"
    /\ reads' = reads \o InfoReads(tokens, outs)
    /\ LET res == BuildResult(req, tokens, pools, inversion,
                     GetTokenInfo(tokens.companyToken, outs["company.symbol"],
                                  outs["company.decimals"]),
                     GetTokenInfo(tokens.currencyToken, outs["currency.symbol"],
                                  outs["currency.decimals"]))
       IN  IF res.status = "NOT_STARTED"
           THEN /\ result' = WithTimeUntilStart(res, req)
                /\ outcome' = Returned(result')
                /\ pc' = "done"
           ELSE /\ result' = res
                /\ pc' = "twap"
                /\ UNCHANGED outcome
    /\ UNCHANGED <<scope, sent, got, clock, seen, twaps, providers, made, req, provider, tokens, pools, inversion,
                   poolResults>>

\* Lines 663-686: the twap field (without percentDiff and windowHours, which
\* are display strings).
TwapField(yesTwap, noTwap, secondsAgo) ==
    LET spread == yesTwap.normalizedPrice - noTwap.normalizedPrice
    IN  [yes |-> [price       |-> yesTwap.normalizedPrice,
                  rawPrice    |-> yesTwap.rawPrice,
                  averageTick |-> yesTwap.averageTick,
                  inverted    |-> yesTwap.inverted],
         no  |-> [price       |-> noTwap.normalizedPrice,
                  rawPrice    |-> noTwap.rawPrice,
                  averageTick |-> noTwap.averageTick,
                  inverted    |-> noTwap.inverted],
         spread        |-> spread,
         winner        |-> Winner(spread),
         windowSeconds |-> secondsAgo]

\* Lines 688-694.
\* A countdown attached whatever the status.
WithTimeRemainingAlways(res, r) ==
    res @@ [timeRemaining |-> [seconds |-> ReqEnd(r) - r.now,
                               human   |-> FormatDuration(ReqEnd(r) - r.now)]]

WithTimeRemaining(res, r) ==
    IF res.status = "ACTIVE"
    THEN res @@ [timeRemaining |-> [seconds |-> ReqEnd(r) - r.now,
                                    human   |-> FormatDuration(ReqEnd(r) - r.now)]]
    ELSE res

\* A catch block that returns the error alone.
TwapStepErrorOnly(res, r, yesTwap, noTwap, first) ==
    IF yesTwap.ok /\ noTwap.ok
    THEN WithTimeRemaining(res @@ [twap |-> TwapField(yesTwap.v, noTwap.v, ReqSecondsAgo(r))], r)
    ELSE [error |-> "TWAP calculation failed: " \o first.err]

\* Lines 657-704: what the try block leaves in `result`, from the outcomes
\* of the two calculatePoolTwap calls; `first` is the one that rejected
\* first when one did.
TwapStep(res, r, yesTwap, noTwap, first) ==
    IF yesTwap.ok /\ noTwap.ok
    THEN WithTimeRemaining(res @@ [twap |-> TwapField(yesTwap.v, noTwap.v, ReqSecondsAgo(r))], r)
    ELSE res @@ [error |-> "TWAP calculation failed: " \o first.err]

\* Lines 651-704: the two oracle reads and the rest of calculateTwap.
CalculateTwaps(yesReply, noReply) ==
    /\ pc = "twap"
    /\ \E secondsAgo \in {ReqSecondsAgo(req)} :
           /\ \E yesRead \in {OracleRead(req.chainId, pools.yesPool, secondsAgo)},
                 noRead  \in {OracleRead(req.chainId, pools.noPool, secondsAgo)} :
                 reads' = reads \o
                     <<Read(yesRead.method, yesRead.pool, yesRead.secondsAgos, yesReply),
                       Read(noRead.method, noRead.pool, noRead.secondsAgos, noReply)>>
           /\ \E yesTwap \in {CalculatePoolTwap(secondsAgo, inversion.yes.shouldInvert,
                                                yesReply)},
                 noTwap  \in {CalculatePoolTwap(secondsAgo, inversion.no.shouldInvert,
                                                noReply)} :
                 /\ \E first \in {x \in {yesTwap, noTwap} : ~x.ok} \cup
                                 (IF yesTwap.ok /\ noTwap.ok THEN {yesTwap} ELSE {}) :
                       result' = TwapStep(result, req, yesTwap, noTwap, first)
                 /\ twaps' = [yes |-> yesTwap, no |-> noTwap]
           /\ outcome' = Returned(result')
           /\ pc' = "done"
    /\ UNCHANGED <<scope, sent, got, clock, seen, providers, made, req, provider, tokens, pools,
                   inversion, poolResults>>

(* ---------------------------- discoverPools --------------------------- *)

\* Lines 726-733: the six pairs, in their declared order.  `conditional` is
\* pair.name.includes('Conditional') and `company` the token line 742 picks.
Pairs(toks) ==
    <<[name |-> "YES_COMPANY/YES_CURRENCY (Conditional)", conditional |-> TRUE,
       t0 |-> toks.yesCompany, t1 |-> toks.yesCurrency, company |-> toks.yesCompany],
      [name |-> "NO_COMPANY/NO_CURRENCY (Conditional)", conditional |-> TRUE,
       t0 |-> toks.noCompany, t1 |-> toks.noCurrency, company |-> toks.noCompany],
      [name |-> "YES_COMPANY/BASE_CURRENCY (Prediction)", conditional |-> FALSE,
       t0 |-> toks.yesCompany, t1 |-> toks.currencyToken, company |-> toks.yesCompany],
      [name |-> "NO_COMPANY/BASE_CURRENCY (Prediction)", conditional |-> FALSE,
       t0 |-> toks.noCompany, t1 |-> toks.currencyToken, company |-> toks.noCompany],
      [name |-> "YES_CURRENCY/BASE_CURRENCY (Prediction)", conditional |-> FALSE,
       t0 |-> toks.yesCurrency, t1 |-> toks.currencyToken, company |-> toks.yesCompany],
      [name |-> "NO_CURRENCY/BASE_CURRENCY (Prediction)", conditional |-> FALSE,
       t0 |-> toks.noCurrency, t1 |-> toks.currencyToken, company |-> toks.noCompany]>>

\* Lines 746-751: the entry pushed for a pair; `inv` is detectInversion's
\* result, or Null when it was not called.  The entry's `inverted` is
\* <<shouldInvert>>, or Null.
PoolEntry(pair, address, inv) ==
    [name     |-> pair.name,
     address  |-> address,
     exists   |-> address # Null,
     inverted |-> IF inv = Null THEN Null ELSE <<inv.shouldInvert>>]

\* A loop body that checks the ordering of every pool it finds.
ChecksOrderingAll(pair, address) == address # Null

\* Whether the loop body calls detectInversion for this pair.
ChecksOrdering(pair, address) == address # Null /\ pair.conditional

\* A turn of the loop that leaves the scan where it is.
ScanPairNoAdvance(outs, token0) ==
    /\ pc = "scan"
    /\ UNCHANGED vars

\* Lines 736-752: one turn of the loop, for the next pair.
ScanPair(outs, token0) ==
    /\ pc = "scan"
    /\ LET pair    == Pairs(tokens)[Len(poolResults) + 1]
           address == FindPool(req.chainId, outs)
           lookups == LookupReads(req.chainId, pair.t0, pair.t1, outs)
       IN  IF ChecksOrdering(pair, address)
           THEN /\ reads' = reads \o lookups \o <<Read("token0", address, << >>, token0)>>
                /\ IF token0.ok
                   THEN /\ poolResults' = Append(poolResults,
                               PoolEntry(pair, address, DetectInversion(token0.v, pair.company)))
                        /\ pc' = IF Len(poolResults') = Len(Pairs(tokens))
                                 THEN "poolsinfo" ELSE "scan"
                        /\ UNCHANGED outcome
                   ELSE /\ pc' = "done"
                        /\ outcome' = Thrown(token0.err)
                        /\ UNCHANGED poolResults
           ELSE /\ reads' = reads \o lookups
                /\ poolResults' = Append(poolResults, PoolEntry(pair, address, Null))
                /\ pc' = IF Len(poolResults') = Len(Pairs(tokens)) THEN "poolsinfo" ELSE "scan"
                /\ UNCHANGED outcome
    /\ UNCHANGED <<scope, sent, got, clock, seen, twaps, providers, made, req, provider, tokens, pools, inversion,
                   result>>

\* A summary that counts every entry as found.
PoolsResultCountsAll(r, toks, entries, companyInfo, currencyInfo) ==
    [proposalAddress |-> r.proposalAddress,
     chainId         |-> r.chainId,
     chain           |-> CHAIN_CONFIG[r.chainId].name,
     marketName      |-> toks.marketName,
     tokens          |-> [company     |-> companyInfo,
                          currency    |-> currencyInfo,
                          yesCompany  |-> toks.yesCompany,
                          noCompany   |-> toks.noCompany,
                          yesCurrency |-> toks.yesCurrency,
                          noCurrency  |-> toks.noCurrency],
     pools           |-> entries,
     found           |-> Len(entries),
     total           |-> Len(entries)]

\* Lines 760-776.
PoolsResult(r, toks, entries, companyInfo, currencyInfo) ==
    [proposalAddress |-> r.proposalAddress,
     chainId         |-> r.chainId,
     chain           |-> CHAIN_CONFIG[r.chainId].name,
     marketName      |-> toks.marketName,
     tokens          |-> [company     |-> companyInfo,
                          currency    |-> currencyInfo,
                          yesCompany  |-> toks.yesCompany,
                          noCompany   |-> toks.noCompany,
                          yesCurrency |-> toks.yesCurrency,
                          noCurrency  |-> toks.noCurrency],
     pools           |-> entries,
     found           |-> Cardinality({i \in DOMAIN entries : entries[i].exists}),
     total           |-> Len(entries)]

\* Lines 754-776: the token metadata and the return.
DiscoverPoolsReturn(outs) ==
    /\ pc = "poolsinfo"
    /\ reads' = reads \o InfoReads(tokens, outs)
    /\ outcome' = Returned(PoolsResult(req, tokens, poolResults,
                     GetTokenInfo(tokens.companyToken, outs["company.symbol"],
                                  outs["company.decimals"]),
                     GetTokenInfo(tokens.currencyToken, outs["currency.symbol"],
                                  outs["currency.decimals"])))
    /\ pc' = "done"
    /\ UNCHANGED <<scope, sent, got, clock, seen, twaps, providers, made, req, provider, tokens, pools, inversion,
                   result, poolResults>>

(* --------------------------- the specification ------------------------ *)

\* The caller takes the outcome; the next request may start.  Only the
\* provider cache outlives a request.
\* What a returned call reported for its window: the options and the time of
\* the call, and the status of the result.
Report(r, res) ==
    [endTimestamp |-> r.endTimestamp, days |-> r.days, now |-> r.now,
     status |-> res.status]

NextRequest ==
    /\ pc = "done"
    /\ scope \in {"cache", "clock", "transport"}
    /\ scope = "transport" => sent.stage # "invoked"
    /\ pc' = "idle"
    /\ req' = NoReq
    /\ provider' = None /\ tokens' = None /\ pools' = None /\ inversion' = None
    /\ result' = None /\ poolResults' = << >> /\ reads' = << >> /\ outcome' = None
    /\ twaps' = None
    /\ seen' = IF outcome.kind = "returned" /\ "status" \in DOMAIN outcome.v
               THEN seen \cup {Report(req, outcome.v)}
               ELSE seen
    /\ UNCHANGED <<scope, sent, got, clock, providers, made>>

(* ----------------------------- transports ----------------------------- *)

\* The command of the CLI, the route of the servers.
Commands == {"twap", "pools"}

\* The chain id as the caller writes it: its text, whether the text is one or
\* more decimal digits and nothing else, and the number the digits spell.
ChainTexts ==
    {[text |-> "100", digits |-> TRUE,  value |-> 100],
     [text |-> "1",   digits |-> TRUE,  value |-> 1],
     [text |-> "5",   digits |-> TRUE,  value |-> 5],
     [text |-> "0",   digits |-> TRUE,  value |-> 0],
     [text |-> "abc", digits |-> FALSE, value |-> 0]}

\* parseInt of a chain id text: the number, or NaN.
ParseInt(chain) ==
    IF chain.digits THEN [nan |-> FALSE, n |-> chain.value] ELSE [nan |-> TRUE, n |-> 0]

\* !chainId
Falsy(chainId) == chainId.nan \/ chainId.n = 0

\* `${chainId}`
ChainIdText(chainId) == IF chainId.nan THEN "NaN" ELSE ToString(chainId.n)

\* !CHAIN_CONFIG[chainId] in the servers.
NoChainConfig(chainId) == chainId.nan \/ ~HasConfig(chainId.n)

\* The proposal address as the caller writes it: its text, what precedes the
\* digits, how many digits follow, and whether all of them are hex digits.
Addresses ==
    {[text |-> "0x45e1064348fd8a407d6d1f59fc64b05f633b28fc",
      prefix |-> "0x", digits |-> 40, hex |-> TRUE],
     [text |-> "0x45e1", prefix |-> "0x", digits |-> 4, hex |-> TRUE],
     [text |-> "0x45e1064348fd8a407d6d1f59fc64b05f633b28fc0",
      prefix |-> "0x", digits |-> 41, hex |-> TRUE],
     [text |-> "0x45e1064348fd8a407d6d1f59fc64b05f633b28zz",
      prefix |-> "0x", digits |-> 40, hex |-> FALSE],
     [text |-> "45e1064348fd8a407d6d1f59fc64b05f633b28fc",
      prefix |-> "", digits |-> 40, hex |-> TRUE]}

\* /^0x[a-fA-F0-9]{40}$/.test(proposalAddress)
AddressPattern(address) ==
    address.prefix = "0x" /\ address.digits = 40 /\ address.hex

Rejected400(message) == [stage |-> "rejected", code |-> 400, message |-> message]

Invoked == [stage |-> "invoked", code |-> 0, message |-> ""]

\* main of the CLI up to the call of the library; the command is given.
CliMainOutcome(command, chain, address) ==
    IF Falsy(ParseInt(chain))
    THEN [stage |-> "rejected", code |-> 1, message |-> "usage"]
    ELSE IF ~AddressPattern(address)
    THEN [stage |-> "rejected", code |-> 1, message |-> "Error: Invalid proposal address"]
    ELSE Invoked

\* The GET /twap and GET /pools routes of the Express server up to the call
\* of the library.
ExpressGetOutcome(route, chain, address) ==
    IF ~AddressPattern(address)
    THEN Rejected400("Invalid proposal address")
    ELSE IF NoChainConfig(ParseInt(chain))
    THEN Rejected400("Unsupported chain " \o ChainIdText(ParseInt(chain))
                     \o ". Use 100 (Gnosis) or 1 (Ethereum)")
    ELSE Invoked

\* parsePathParams on /route/chain/address: whether the path is one of the
\* two routes with a chain id of decimal digits and an address of the pattern.
ParsePathParamsMatches(route, chain, address) ==
    route \in Commands /\ chain.digits /\ AddressPattern(address)

\* The Lambda handler up to the call of the library.
LambdaHandlerOutcome(route, chain, address) ==
    IF ~ParsePathParamsMatches(route, chain, address)
    THEN [stage |-> "rejected", code |-> 404,
          message |-> "Route not found: /" \o route \o "/" \o chain.text
                      \o "/" \o address.text]
    ELSE IF ~AddressPattern(address)
    THEN Rejected400("Invalid proposal address")
    ELSE IF NoChainConfig(ParseInt(chain))
    THEN Rejected400("Unsupported chain " \o ChainIdText(ParseInt(chain))
                     \o ". Use 100 (Gnosis) or 1 (Ethereum)")
    ELSE Invoked

\* What a transport answers before it calls the library, if it answers then.
TransportOutcome(transport, route, chain, address) ==
    CASE transport = "cli"     -> CliMainOutcome(route, chain, address)
      [] transport = "express" -> ExpressGetOutcome(route, chain, address)
      [] transport = "lambda"  -> LambdaHandlerOutcome(route, chain, address)

\* A request arrives at a transport: it is answered at once, or handed to
\* calculateTwap or discoverPools with no options.
Arrive(transport, route, chain, address, now) ==
    /\ scope = "transport"
    /\ pc = "idle"
    /\ sent' = [transport |-> transport, route |-> route, chain |-> chain,
                address |-> address]
               @@ TransportOutcome(transport, route, chain, address)
    /\ IF TransportOutcome(transport, route, chain, address).stage = "rejected"
       THEN UNCHANGED <<scope, providers, made, pc, req, provider, tokens, pools, inversion,
                        result, poolResults, twaps, reads, outcome, got, clock, seen>>
       ELSE IF route = "twap"
       THEN CalculateTwap(ParseInt(chain).n, NoRpc, 0, 0, now)
       ELSE DiscoverPools(ParseInt(chain).n, NoRpc)

CliMain(command, chain, address, now) == Arrive("cli", command, chain, address, now)

ExpressGet(route, chain, address, now) == Arrive("express", route, chain, address, now)

LambdaHandler(route, chain, address, now) == Arrive("lambda", route, chain, address, now)

\* The exit code and the line of the CLI after the library call settled.
CliResponse(out) ==
    IF out.kind = "thrown" THEN [code |-> 1, message |-> "Error: " \o out.v]
    ELSE [code |-> 0, message |-> ""]

\* The status and the error of a server's response after the library call
\* settled.
HttpResponse(out) ==
    IF out.kind = "thrown" THEN [code |-> 500, message |-> out.v]
    ELSE [code |-> 200, message |-> ""]

\* The transport answers once the library call has settled.
Respond ==
    /\ scope = "transport"
    /\ pc = "done"
    /\ sent.stage = "invoked"
    /\ sent' = [stage |-> "responded"]
               @@ (IF sent.transport = "cli" THEN CliResponse(outcome)
                   ELSE HttpResponse(outcome))
               @@ sent
    /\ UNCHANGED <<scope, providers, made, pc, req, provider, tokens, pools, inversion,
                   result, poolResults, twaps, reads, outcome, got, clock, seen>>

\* getProvider called from outside the request in progress: by another
\* request of the same process while this one awaits a read, or by a user of
\* the exported helper.
GetProvider(chainId, rpcUrl) ==
    /\ scope = "cache"
    /\ IF GetProviderThrows(providers, chainId, rpcUrl)
       THEN /\ got' = [chainId |-> chainId, rpcUrl |-> rpcUrl, kind |-> "thrown",
                       v |-> None, err |-> "Unsupported chain " \o ToString(chainId)]
            /\ UNCHANGED <<providers, made>>
       ELSE /\ providers' = GetProviderCache(providers, made, chainId, rpcUrl)
            /\ made' = GetProviderMade(providers, made, chainId, rpcUrl)
            /\ got' = [chainId |-> chainId, rpcUrl |-> rpcUrl, kind |-> "returned",
                       v |-> providers'[ProviderKey(chainId, rpcUrl)], err |-> ""]
    /\ UNCHANGED <<scope, sent, clock, seen, pc, req, provider, tokens, pools, inversion,
                   result, poolResults, twaps, reads, outcome>>

Init ==
    /\ scope \in Scopes
    /\ providers = << >>
    /\ made = 0
    /\ pc = "idle"
    /\ req = NoReq
    /\ provider = None /\ tokens = None /\ pools = None /\ inversion = None
    /\ result = None /\ poolResults = << >> /\ reads = << >> /\ outcome = None
    /\ twaps = None /\ got = None /\ clock = 0 /\ seen = {} /\ sent = None

\* The step a call in progress is waiting for: the reads it awaits settle,
\* with one of their possible outcomes, and the code after the await runs.
Settle ==
    \/ \E failed \in TokenFailures :
          \E first \in (IF failed \cap MandatoryTokenReads = {} THEN {"none"}
                        ELSE failed \cap MandatoryTokenReads) :
             GetProposalTokens(TokenOutcomes(failed), first)
    \/ /\ pc = "pools"
       /\ \E yesOuts \in LookupOutcomes(req.chainId, 1),
             noOuts \in LookupOutcomes(req.chainId, 2) :
             DiscoverConditionalPools(yesOuts, noOuts)
    \/ /\ pc = "inversion"
       /\ \E yesToken0 \in Token0Outcomes("yes", tokens.yesCompany, tokens.yesCurrency),
             noToken0 \in Token0Outcomes("no", tokens.noCompany, tokens.noCurrency) :
             DetectInversions(yesToken0, noToken0)
    \/ /\ pc = "info"
       /\ \E failed \in InfoFailures : GetTokenInfos(InfoOutcomes(tokens, failed))
    \/ /\ pc = "twap"
       /\ \E w \in {SecondsWindow(ReqSecondsAgo(req))} :
             \E yesReply \in OracleOutcomes("yes", w), noReply \in OracleOutcomes("no", w) :
                CalculateTwaps(yesReply, noReply)
    \/ /\ pc = "scan"
       /\ \E outs \in LookupOutcomes(req.chainId, Len(poolResults) + 1) :
             \E token0 \in (IF ChecksOrdering(Pairs(tokens)[Len(poolResults) + 1],
                                              FindPool(req.chainId, outs))
                            THEN Token0Outcomes(IF Len(poolResults) = 0 THEN "yes" ELSE "no",
                                                Pairs(tokens)[Len(poolResults) + 1].company,
                                                Pairs(tokens)[Len(poolResults) + 1].t1)
                            ELSE {None}) :
                ScanPair(outs, token0)
    \/ /\ pc = "poolsinfo"
       /\ \E failed \in InfoFailures : DiscoverPoolsReturn(InfoOutcomes(tokens, failed))

Next ==
    \/ /\ scope # "transport"
       /\ UNCHANGED sent
       /\ \E chainId \in ChainIds, rpcUrl \in RpcUrls, endTimestamp \in EndTimestamps,
             days \in Days, now \in Nows :
             CalculateTwap(chainId, rpcUrl, endTimestamp, days, now)
    \/ /\ scope # "transport"
       /\ UNCHANGED sent
       /\ \E chainId \in ChainIds, rpcUrl \in RpcUrls : DiscoverPools(chainId, rpcUrl)
    \/ \E command \in Commands, chain \in ChainTexts, address \in Addresses, now \in Nows :
          CliMain(command, chain, address, now)
    \/ \E route \in Commands, chain \in ChainTexts, address \in Addresses, now \in Nows :
          ExpressGet(route, chain, address, now)
    \/ \E route \in Commands, chain \in ChainTexts, address \in Addresses, now \in Nows :
          LambdaHandler(route, chain, address, now)
    \/ Respond
    \/ Settle
    \/ NextRequest
    \/ \E chainId \in ChainIds, rpcUrl \in RpcUrls : GetProvider(chainId, rpcUrl)

Spec == Init /\ [][Next]_vars

(* ------------------------------- claims ------------------------------- *)

IsTwap == req.op = "calculateTwap"
IsPools == req.op = "discoverPools"

IsLookup(rd) == rd.fn \in {"poolByPair", "getPool"}
IsOracle(rd) == rd.fn \in {"getTimepoints", "observe"}

OracleReads == {i \in DOMAIN reads : IsOracle(reads[i])}

HasReturned == pc = "done" /\ outcome.kind = "returned"
HasThrown == pc = "done" /\ outcome.kind = "thrown"

\* The request got as far as the result object of lines 613-640.
HasResult == IsTwap /\ result # None

\* C1: for every chainId outside {1, 100}, calculateTwap and discoverPools
\* throw an 'Unsupported chain' error, construct no connection and issue no
\* on-chain read, whatever the other arguments and whatever the provider
\* cache holds from earlier requests.  (A step that changes `got` is a call
\* of getProvider from outside the request, not a step of the request.)
C1_UnsupportedChainFailsFast ==
    [][(req'.op # "none" /\ req'.chainId \notin {1, 100} /\ got' = got)
        => /\ pc' = "done"
           /\ outcome'.kind = "thrown"
           /\ outcome'.v \in
                 {"Unsupported chain " \o ToString(req'.chainId),
                  "Unsupported chain " \o ToString(req'.chainId)
                     \o ". Use 100 (Gnosis) or 1 (Ethereum)"}
           /\ reads' = << >>
           /\ made' = made
           /\ providers' = providers]_vars

\* An unsupported chain is refused although an earlier request has cached a
\* connection under the very key of this request.
W1_RefusedWithCachedKey ==
    /\ HasThrown
    /\ req.chainId \notin {1, 100}
    /\ ProviderKey(req.chainId, req.rpcUrl) \in DOMAIN providers

\* C2 (as claimed): the status is NOT_STARTED exactly when now < start, ACTIVE
\* exactly when start <= now < endTimestamp, and ENDED exactly when
\* now >= endTimestamp, with start = endTimestamp - days*86400.
C2_StatusAsClaimed ==
    HasResult =>
        LET now   == req.now
            end   == ReqEnd(req)
            start == ReqEnd(req) - ReqDuration(req)
        IN  /\ result.status = "NOT_STARTED" <=> now < start
            /\ result.status = "ACTIVE" <=> (start <= now /\ now < end)
            /\ result.status = "ENDED" <=> now >= end

\* C2 (amended): the status is NOT_STARTED exactly when now < start, ACTIVE
\* exactly when start <= now < endTimestamp, and ENDED exactly when
\* now >= endTimestamp and now >= start; now = endTimestamp gives ENDED
\* whenever days > 0.
C2_Status ==
    HasResult =>
        LET now   == req.now
            end   == ReqEnd(req)
            start == ReqEnd(req) - ReqDuration(req)
        IN  /\ result.status \in {"NOT_STARTED", "ACTIVE", "ENDED"}
            /\ result.status = "NOT_STARTED" <=> now < start
            /\ result.status = "ACTIVE" <=> (start <= now /\ now < end)
            /\ result.status = "ENDED" <=> (now >= end /\ now >= start)
            /\ (ReqDays(req) > 0 /\ now = end) => result.status = "ENDED"

\* A call made at now = endTimestamp exactly, with an endTimestamp given.
W2_EndedAtTheBoundary ==
    /\ HasResult
    /\ req.endTimestamp # 0
    /\ req.now = req.endTimestamp
    /\ ReqDays(req) > 0
    /\ result.status = "ENDED"

\* C3: when one or both conditional pools are not found, calculateTwap does
\* not throw: it returns a result with an error field, the resolved token
\* addresses, and pools.yes / pools.no set to the found address or null,
\* each on its own.
C3_MissingPoolIsAResult ==
    (IsTwap /\ pools # None /\ (pools.yesPool = Null \/ pools.noPool = Null)) =>
        /\ HasReturned
        /\ "error" \in DOMAIN outcome.v
        /\ outcome.v.error = "Could not find YES/NO conditional pools on-chain"
        /\ outcome.v.pools.yes = pools.yesPool
        /\ outcome.v.pools.no = pools.noPool
        /\ outcome.v.tokens =
              [yesCompany    |-> OnChainTokens.yesCompany,
               noCompany     |-> OnChainTokens.noCompany,
               yesCurrency   |-> OnChainTokens.yesCurrency,
               noCurrency    |-> OnChainTokens.noCurrency,
               companyToken  |-> OnChainTokens.companyToken,
               currencyToken |-> OnChainTokens.currencyToken]

\* The YES pool is missing and the NO pool was found.
W3_YesMissingNoFound ==
    /\ IsTwap /\ HasReturned
    /\ "error" \in DOMAIN outcome.v
    /\ outcome.v.pools.yes = Null
    /\ outcome.v.pools.no # Null

\* C4 (as claimed): the interval the average is taken over is
\* [E - D*86400, E] once the window has ended, at whatever time after E the
\* call is made, and [E - D*86400, now] while it is ACTIVE (E the effective
\* end, D the effective days; the oracle counts whole seconds, one at least).
\* An oracle read with offsets <<w, 0>> made at `now` covers [now - w, now].
C4_WindowAsClaimed ==
    IsTwap =>
        \A i \in OracleReads :
            LET from  == req.now - Secs(reads[i].args[1])
                to    == req.now - Secs(reads[i].args[2])
                end   == ReqEnd(req)
                start == ReqEnd(req) - ReqDuration(req)
            IN  /\ result.status = "ENDED" =>
                      /\ to = end
                      /\ from = end - Secs(SecondsWindow(ReqDuration(req)))
                /\ result.status = "ACTIVE" =>
                      /\ to = req.now
                      /\ from = req.now - Secs(SecondsWindow(req.now - start))

\* C5: the lookback handed to the TWAP engine is min(now - start, duration)
\* while ACTIVE and duration once ENDED, so it is never larger than the
\* configured duration; the oracle is read over that lookback in whole
\* seconds (one at least), and a successful result reports it as
\* twap.windowSeconds.
C5_Lookback ==
    (IsTwap /\ OracleReads # {}) =>
        LET duration == ReqDuration(req)
            start    == ReqEnd(req) - duration
            elapsed  == req.now - start
            lookback == IF result.status = "ACTIVE"
                        THEN (IF elapsed < duration THEN elapsed ELSE duration)
                        ELSE duration
        IN  /\ result.status \in {"ACTIVE", "ENDED"}
            /\ lookback <= duration
            /\ \A i \in OracleReads :
                  reads[i].args = <<Max(1, lookback \div Sub), 0>>
            /\ "twap" \in DOMAIN result => result.twap.windowSeconds = lookback

\* An ACTIVE window read over the time elapsed since its start, and an ENDED
\* one queried after its end, are both reachable; this is the first.
W5_ActiveLookbackIsElapsed ==
    /\ HasReturned /\ IsTwap
    /\ "twap" \in DOMAIN result
    /\ result.status = "ACTIVE"
    /\ result.twap.windowSeconds = Secs(10000)
    /\ result.twap.windowSeconds < ReqDuration(req)

\* C6: when the status is NOT_STARTED and both conditional pools exist, no
\* oracle read is made, and the returned result carries
\* timeUntilStart.seconds = start - now with its formatted duration (10
\* seconds away gives "10s"), without a twap and without an error field.
C6_NotStarted ==
    (HasResult /\ result.status = "NOT_STARTED") =>
        /\ pools.yesPool # Null /\ pools.noPool # Null
        /\ OracleReads = {}
        /\ pc = "done"
        /\ outcome = Returned(result)
        /\ "twap" \notin DOMAIN result
        /\ "error" \notin DOMAIN result
        /\ "timeUntilStart" \in DOMAIN result
        /\ result.timeUntilStart.seconds = (ReqEnd(req) - ReqDuration(req)) - req.now
        /\ result.timeUntilStart.seconds > 0
        /\ result.timeUntilStart.human = FormatDuration(result.timeUntilStart.seconds)
        /\ result.timeUntilStart.seconds = Secs(10) => result.timeUntilStart.human = "10s"
        /\ result.timeUntilStart.seconds = Secs(1000) => result.timeUntilStart.human = "16m 40s"

\* The call made ten seconds before the window opens.
W6_TenSecondsAway ==
    /\ HasReturned /\ HasResult
    /\ result.status = "NOT_STARTED"
    /\ pools.yesPool # Null /\ pools.noPool # Null
    /\ outcome.v.timeUntilStart = [seconds |-> Secs(10), human |-> "10s"]

\* The oracle read of a side failed, or its answer gives an invalid price.
PoolTwapFailed(i) ==
    \/ ~reads[i].outcome.ok
    \/ LET w == reads[i].args[1]
           delta == reads[i].outcome.v[2] - reads[i].outcome.v[1]
       IN  ~IsFinite(Pow(delta, w)) \/ Pow(delta, w) <= 0

\* C7: when either pool's TWAP computation fails, calculateTwap does not
\* throw: it returns the result with an error field describing the failure
\* and no twap field, and the result still carries the tokens, the pools with
\* their inversion flags, the twapWindow and the status.
C7_TwapFailureIsAResult ==
    (IsTwap /\ \E i \in OracleReads : PoolTwapFailed(i)) =>
        /\ HasReturned
        /\ outcome.v = result
        /\ "twap" \notin DOMAIN result
        /\ "timeRemaining" \notin DOMAIN result
        /\ "error" \in DOMAIN result
        /\ {"tokens", "pools", "twapWindow", "status"} \subseteq DOMAIN result
        /\ result.error \in {"TWAP calculation failed: could not detect network",
                             "TWAP calculation failed: Invalid price from oracle"}
        /\ result.tokens.yesCompany = OnChainTokens.yesCompany
        /\ result.tokens.noCurrency = OnChainTokens.noCurrency
        /\ result.tokens.company.address = OnChainTokens.companyToken
        /\ result.pools = [yes |-> [address  |-> pools.yesPool,
                                    inverted |-> inversion.yes.shouldInvert],
                           no  |-> [address  |-> pools.noPool,
                                    inverted |-> inversion.no.shouldInvert]]
        /\ result.pools.yes.address # Null /\ result.pools.no.address # Null
        /\ result.twapWindow.endTimestamp = ReqEnd(req)
        /\ result.twapWindow.startTimestamp = ReqEnd(req) - ReqDuration(req)
        /\ result.status \in {"ACTIVE", "ENDED"}
        /\ result.status = "ENDED" <=> req.now >= ReqEnd(req)

\* The NO pool's oracle answers with an overflowing price while the YES
\* pool's answer is good, on an inverted pool.
W7_InvalidPriceOnOneSide ==
    /\ HasReturned /\ IsTwap
    /\ "error" \in DOMAIN result
    /\ result.error = "TWAP calculation failed: Invalid price from oracle"
    /\ \E i, j \in OracleReads : PoolTwapFailed(i) /\ ~PoolTwapFailed(j)
    /\ result.pools.yes.inverted \/ result.pools.no.inverted

\* C8: the winner is YES exactly when the spread (YES price minus NO price)
\* is above 1e-8, NO exactly when it is below -1e-8, and TIE otherwise; a
\* spread of exactly 1e-8 or -1e-8 is a TIE.
C8_Winner ==
    (HasResult /\ "twap" \in DOMAIN result) =>
        LET spread == result.twap.yes.price - result.twap.no.price
        IN  /\ result.twap.spread = spread
            /\ result.twap.winner \in {"YES", "NO", "TIE"}
            /\ result.twap.winner = "YES" <=> spread > Epsilon
            /\ result.twap.winner = "NO" <=> spread < -Epsilon
            /\ result.twap.winner = "TIE" <=> (-Epsilon <= spread /\ spread <= Epsilon)

\* A spread of exactly 1e-8.
W8_TieAtEpsilon ==
    /\ HasReturned /\ HasResult
    /\ "twap" \in DOMAIN result
    /\ result.twap.spread = PriceScale \div 10^8
    /\ result.twap.winner = "TIE"

\* The six pair names of discoverPools, in their declared order.
PairNames ==
    <<"YES_COMPANY/YES_CURRENCY (Conditional)",
      "NO_COMPANY/NO_CURRENCY (Conditional)",
      "YES_COMPANY/BASE_CURRENCY (Prediction)",
      "NO_COMPANY/BASE_CURRENCY (Prediction)",
      "YES_CURRENCY/BASE_CURRENCY (Prediction)",
      "NO_CURRENCY/BASE_CURRENCY (Prediction)">>

\* C9: whenever discoverPools returns, pools has exactly 6 entries in the
\* declared order, total is 6, found is the number of entries with a
\* non-null address, and exists is true for exactly those entries, for every
\* combination of found and missing pools.
C9_SixEntries ==
    (IsPools /\ HasReturned) =>
        LET entries == outcome.v.pools
        IN  /\ Len(entries) = 6
            /\ [i \in DOMAIN entries |-> entries[i].name] = PairNames
            /\ outcome.v.total = 6
            /\ outcome.v.found =
                  Cardinality({i \in DOMAIN entries : entries[i].address # Null})
            /\ \A i \in DOMAIN entries :
                  entries[i].exists <=> entries[i].address # Null

\* A scan that found some pools and missed others, the first among the
\* missing.
W9_SomeFoundSomeMissing ==
    /\ IsPools /\ HasReturned
    /\ outcome.v.pools[1].address = Null
    /\ outcome.v.pools[2].address # Null
    /\ outcome.v.found = 3

\* What the findPool calls that have returned gave, by pair.
FoundPools ==
    IF IsTwap /\ pools # None THEN <<pools.yesPool, pools.noPool>>
    ELSE IF IsPools THEN [i \in DOMAIN poolResults |-> poolResults[i].address]
    ELSE << >>

\* The factory lookups issued for the i-th pair.
LookupsOf(i) ==
    {k \in DOMAIN reads :
        /\ IsLookup(reads[k])
        /\ {reads[k].args[1], reads[k].args[2]} = {Pairs(tokens)[i].t0, Pairs(tokens)[i].t1}}

FirstLookupOf(i) == CHOOSE k \in LookupsOf(i) : \A j \in LookupsOf(i) : k <= j

\* A lookup that gave a pool: it resolved, to a non-zero address.
GavePool(rd) == rd.outcome.ok /\ rd.outcome.v # ZERO

\* C11: on the algebra protocol findPool(tokenA, tokenB) first looks up
\* (tokenA, tokenB); the swapped lookup (tokenB, tokenA) is issued exactly
\* when the first one returned the zero address or failed, and once at most;
\* the result is the first non-zero address obtained, and null only if both
\* orderings gave zero or failed.
C11_AlgebraRetry ==
    \A i \in DOMAIN FoundPools :
        CHAIN_CONFIG[req.chainId].mode = "algebra" =>
            LET pair    == Pairs(tokens)[i]
                k1      == FirstLookupOf(i)
                retries == LookupsOf(i) \ {k1}
            IN  /\ LookupsOf(i) # {}
                /\ \A k \in LookupsOf(i) : reads[k].fn = "poolByPair"
                /\ reads[k1].args = <<pair.t0, pair.t1>>
                /\ retries # {} <=> ~GavePool(reads[k1])
                /\ retries \subseteq {k1 + 1}
                /\ \A k \in retries : reads[k].args = <<pair.t1, pair.t0>>
                /\ FoundPools[i] =
                      IF GavePool(reads[k1]) THEN reads[k1].outcome.v
                      ELSE IF GavePool(reads[k1 + 1]) THEN reads[k1 + 1].outcome.v
                      ELSE Null

\* The first ordering failed and the swapped one gave the pool.
W11_SwappedLookupFound ==
    /\ IsTwap /\ pools # None
    /\ CHAIN_CONFIG[req.chainId].mode = "algebra"
    /\ Cardinality(LookupsOf(1)) = 2
    /\ ~reads[FirstLookupOf(1)].outcome.ok
    /\ pools.yesPool = reads[FirstLookupOf(1) + 1].outcome.v
    /\ pools.yesPool # Null

\* C12: on the uniswap protocol findPool issues one lookup per configured
\* fee tier, all of them whatever the others give, and returns the non-zero
\* address of the earliest tier in the declared order [500, 3000, 10000, 100],
\* whatever order the lookups settle in; a failed tier lookup counts as zero,
\* and the result is null exactly when every tier is zero or failed.
C12_EarliestTier ==
    \A i \in DOMAIN FoundPools :
        CHAIN_CONFIG[req.chainId].mode = "uniswap" =>
            LET pair  == Pairs(tokens)[i]
                k1    == FirstLookupOf(i)
                fees  == <<500, 3000, 10000, 100>>
                gave  == {j \in 1..4 : GavePool(reads[k1 + j - 1])}
            IN  /\ LookupsOf(i) = k1..(k1 + 3)
                /\ \A j \in 1..4 :
                      /\ reads[k1 + j - 1].fn = "getPool"
                      /\ reads[k1 + j - 1].args = <<pair.t0, pair.t1, fees[j]>>
                /\ FoundPools[i] = Null <=> gave = {}
                /\ gave # {} =>
                      \E j \in gave :
                          /\ \A l \in gave : j <= l
                          /\ FoundPools[i] = reads[k1 + j - 1].outcome.v

\* The 100 tier settles first and the 3000 tier last, both with a pool: the
\* 3000 tier's pool is returned.
W12_LaterTierSettlesFirst ==
    /\ IsTwap /\ pools # None
    /\ CHAIN_CONFIG[req.chainId].mode = "uniswap"
    /\ LET k1 == FirstLookupOf(1)
       IN  /\ "at" \in DOMAIN reads[k1].outcome
           /\ ~GavePool(reads[k1])
           /\ GavePool(reads[k1 + 1]) /\ GavePool(reads[k1 + 3])
           /\ reads[k1 + 3].outcome.at = 1
           /\ reads[k1 + 1].outcome.at = 4
           /\ pools.yesPool = reads[k1 + 1].outcome.v

\* C13: getProposalTokens issues its seven reads together; a failure of the
\* marketName read alone gives marketName = 'Unknown' and a normal result,
\* while a failure of any of the four wrappedOutcome reads or of the two
\* collateral-token reads makes the resolution, and the calculateTwap or
\* discoverPools call around it, fail with that error.
C13_ProposalReads ==
    reads # << >> =>
        LET rejected == {i \in 1..6 : ~reads[i].outcome.ok}
        IN  /\ Len(reads) >= 7
            /\ [i \in 1..7 |-> reads[i].fn] =
                  <<"wrappedOutcome(0)", "wrappedOutcome(1)", "wrappedOutcome(2)",
                    "wrappedOutcome(3)", "collateralToken1", "collateralToken2",
                    "marketName">>
            /\ \A i \in 1..7 : reads[i].to = req.proposalAddress
            /\ rejected # {} =>
                  /\ HasThrown
                  /\ Len(reads) = 7
                  /\ tokens = None
                  /\ \E i \in rejected : outcome.v = reads[i].outcome.err
            /\ rejected = {} =>
                  /\ tokens # None
                  /\ tokens.marketName = IF reads[7].outcome.ok THEN reads[7].outcome.v
                                         ELSE "Unknown"
                  /\ (HasThrown /\ ~reads[7].outcome.ok) =>
                        outcome.v # reads[7].outcome.err
                  /\ HasReturned => outcome.v.marketName = tokens.marketName

\* Only the marketName read failed, and the call returned its result.
W13_UnknownMarketName ==
    /\ HasReturned
    /\ ~reads[7].outcome.ok
    /\ \A i \in 1..6 : reads[i].outcome.ok
    /\ outcome.v.marketName = "Unknown"

\* The reads of the log that rejected.
FailedReads == {k \in DOMAIN reads : ~reads[k].outcome.ok}

\* A read without a .catch: a proposal read other than marketName, or token0.
IsMandatory(k) == k <= 6 \/ reads[k].fn = "token0"

\* The pairs whose factory lookups were all issued and all failed.
ExhaustedPairs ==
    {i \in DOMAIN FoundPools : \A k \in LookupsOf(i) : ~reads[k].outcome.ok}

\* No read that failed is issued a second time.
NoRetry ==
    \A k \in FailedReads : \A j \in DOMAIN reads :
        (j # k) => <<reads[j].fn, reads[j].to, reads[j].args>>
                      # <<reads[k].fn, reads[k].to, reads[k].args>>

SeenForWindow ==
    {e \in seen : e.endTimestamp = req.endTimestamp /\ e.days = req.days}

\* C15: for a fixed window (endTimestamp, days) and calls made at
\* non-decreasing wall-clock times, the status only moves forward along
\* NOT_STARTED -> ACTIVE -> ENDED: after a call reported ACTIVE no later call
\* reports NOT_STARTED, after a call reported ENDED every later call reports
\* ENDED, and two calls at the same time report the same status whatever
\* came between them.
C15_StatusMovesForward ==
    (HasResult /\ req.endTimestamp # 0) =>
        \A e \in SeenForWindow :
            /\ e.now <= req.now
            /\ e.status = "ACTIVE" => result.status \in {"ACTIVE", "ENDED"}
            /\ e.status = "ENDED" => result.status = "ENDED"
            /\ e.now = req.now => e.status = result.status

\* The same window was reported NOT_STARTED, then ACTIVE, and is now ENDED.
W15_ThroughAllThree ==
    /\ HasResult /\ req.endTimestamp # 0
    /\ result.status = "ENDED"
    /\ \E e1, e2 \in SeenForWindow :
          /\ e1.status = "NOT_STARTED" /\ e2.status = "ACTIVE"
          /\ e1.now < e2.now /\ e2.now < req.now

\* C16: after any sequence or interleaving of requests and getProvider
\* calls, a cached connection is never replaced or removed, the number of
\* connections constructed is the number of cache keys (so at most one per
\* (chainId, rpcUrl) pair), a call constructs at most one connection, and
\* every call that returns hands out the connection cached under its pair.
C16_OneConnectionPerPair ==
    [][/\ \A k \in DOMAIN providers :
              k \in DOMAIN providers' /\ providers'[k] = providers[k]
       /\ made' = Cardinality(DOMAIN providers')
       /\ made' \in {made, made + 1}
       /\ \A j, k \in DOMAIN providers' :
              providers'[j].id = providers'[k].id => j = k
       /\ (got' # None /\ got'.kind = "returned") =>
              got'.v = providers'[ProviderKey(got'.chainId, got'.rpcUrl)]
       /\ pc' \notin {"idle", "done"} =>
              provider' = providers'[ProviderKey(req'.chainId, req'.rpcUrl)]]_vars

\* A getProvider call and a request in progress for the same pair hold the
\* identical connection, while another connection is cached as well.
W16_SamePairSameConnection ==
    /\ got # None /\ got.kind = "returned"
    /\ pc \notin {"idle", "done"}
    /\ got.chainId = req.chainId /\ got.rpcUrl = req.rpcUrl
    /\ got.v = provider
    /\ made >= 2

\* C17: in each transport (CLI, Express server, Lambda handler) a
\* proposalAddress that does not match 0x followed by exactly 40 hex digits
\* is rejected before calculateTwap or discoverPools is invoked, and the
\* rejection (message and status or exit code) is the one the same transport
\* gives to the same address under every other chain id.
C17_RejectionSameForEveryChain ==
    (sent # None /\ ~AddressPattern(sent.address)) =>
        /\ sent.stage = "rejected"
        /\ pc = "idle" /\ req = NoReq /\ reads = << >>
        /\ \A chain \in ChainTexts :
              /\ TransportOutcome(sent.transport, sent.route, chain, sent.address).code
                    = sent.code
              /\ TransportOutcome(sent.transport, sent.route, chain, sent.address).message
                    = sent.message

\* C18: the window length reported in a successful result,
\* twap.windowSeconds, is the window actually used for the oracle reads,
\* max(1, floor(lookback)) seconds, for every status and every days value;
\* for days = 5 and status ENDED it is 5 * 86400 seconds.
C18_WindowSecondsIsWindowUsed ==
    (HasResult /\ "twap" \in DOMAIN result) =>
        /\ result.twap.windowSeconds = Secs(SecondsWindow(ReqSecondsAgo(req)))
        /\ \A i \in OracleReads : Secs(reads[i].args[1]) = result.twap.windowSeconds
        /\ (ReqDays(req) = 5 * DaysDen /\ result.status = "ENDED") =>
              result.twap.windowSeconds = Secs(FiveDays)

\* C19: calculateTwap called without endTimestamp and without days uses
\* endTimestamp = now and days = 5: the window is the last 5 days before the
\* call, the status is ENDED, and every oracle read looks back 432000
\* seconds.
C19_DefaultWindow ==
    (HasResult /\ req.endTimestamp = 0 /\ req.days = 0) =>
        /\ result.twapWindow.endTimestamp = req.now
        /\ result.twapWindow.startTimestamp = req.now - Secs(432000)
        /\ result.twapWindow.days = 5 * DaysDen
        /\ result.twapWindow.durationSeconds = Secs(432000)
        /\ result.status = "ENDED"
        /\ \A i \in OracleReads : reads[i].args = <<432000, 0>>
        /\ "twap" \in DOMAIN result => result.twap.windowSeconds = Secs(432000)

\* A call with neither option returned a twap after its two oracle reads.
W19_DefaultsGaveTwap ==
    /\ HasReturned /\ HasResult
    /\ req.endTimestamp = 0 /\ req.days = 0
    /\ "twap" \in DOMAIN result
    /\ Cardinality(OracleReads) = 2

\* What one pool's computation gave, set against its own oracle read `rd`
\* alone: it failed with 'Invalid price from oracle' exactly when the read
\* resolved and 1.0001^averageTick is not a finite positive number, it failed
\* with the read's error when the read failed, and otherwise its prices are
\* the power for its own tick and window.
PoolTwapFromOwnRead(twap, rd, shouldInvert) ==
    LET price == IF rd.outcome.ok
                 THEN Pow(rd.outcome.v[2] - rd.outcome.v[1], rd.args[1])
                 ELSE 0
    IN  /\ (~twap.ok /\ twap.err = "Invalid price from oracle")
              <=> (rd.outcome.ok /\ ~(IsFinite(price) /\ price > 0))
        /\ ~rd.outcome.ok => (~twap.ok /\ twap.err = rd.outcome.err)
        /\ twap.ok =>
              /\ twap.v.rawPrice = price
              /\ twap.v.normalizedPrice
                    = (IF shouldInvert THEN Reciprocal(price) ELSE price)
              /\ twap.v.averageTick
                    = [num |-> rd.outcome.v[2] - rd.outcome.v[1], den |-> rd.args[1]]

\* C20: calculatePoolTwap fails with 'Invalid price from oracle' exactly
\* when 1.0001^averageTick is not a finite positive number, and the failure
\* is per pool: of the YES and NO computations run together, each one's
\* outcome is determined by its own oracle read, whatever the other gave.
C20_InvalidPricePerPool ==
    twaps # None =>
        /\ PoolTwapFromOwnRead(twaps.yes, reads[Len(reads) - 1], inversion.yes.shouldInvert)
        /\ PoolTwapFromOwnRead(twaps.no, reads[Len(reads)], inversion.no.shouldInvert)

\* The NO computation failed on an overflowing price while the YES one gave
\* a price other than 1.
W20_OneSideInvalid ==
    /\ twaps # None
    /\ ~twaps.no.ok /\ twaps.no.err = "Invalid price from oracle"
    /\ twaps.yes.ok /\ twaps.yes.v.rawPrice # PriceScale
    /\ "error" \in DOMAIN result

\* C21: a result that calculateTwap returns carries timeRemaining exactly
\* when its status is ACTIVE and the TWAP step succeeded (it has a twap and
\* no error); timeRemaining.seconds is then endTimestamp - now. Results with
\* status ENDED or NOT_STARTED, results with an error and results without a
\* status never carry it.
C21_TimeRemainingWhenActive ==
    (HasReturned /\ IsTwap) =>
        /\ "timeRemaining" \in DOMAIN outcome.v
              <=> /\ "status" \in DOMAIN outcome.v
                  /\ outcome.v.status = "ACTIVE"
                  /\ "twap" \in DOMAIN outcome.v
                  /\ "error" \notin DOMAIN outcome.v
        /\ "timeRemaining" \in DOMAIN outcome.v =>
              /\ outcome.v.timeRemaining.seconds = ReqEnd(req) - req.now
              /\ outcome.v.timeRemaining.seconds > 0

\* An ACTIVE window whose twap was computed 422000 seconds before its end.
W21_ActiveWithCountdown ==
    /\ HasReturned /\ IsTwap
    /\ "twap" \in DOMAIN outcome.v
    /\ "timeRemaining" \in DOMAIN outcome.v
    /\ outcome.v.status = "ACTIVE"
    /\ outcome.v.timeRemaining.seconds = Secs(FiveDays - 10000)

\* The symbol and decimals reads of the request in progress.
InfoReadsAt == {i \in DOMAIN reads : reads[i].fn \in {"symbol", "decimals"}}

\* What the result reports for one token, set against its symbol read at
\* index i and its decimals read at index i + 1.
TokenInfoFromReads(info, i) ==
    /\ reads[i].fn = "symbol" /\ reads[i + 1].fn = "decimals"
    /\ reads[i].to = info.address /\ reads[i + 1].to = info.address
    /\ info.symbol = (IF reads[i].outcome.ok THEN reads[i].outcome.v ELSE "UNKNOWN")
    /\ info.decimals = (IF reads[i + 1].outcome.ok THEN reads[i + 1].outcome.v ELSE 18)

\* The result that holds the token metadata: the one calculateTwap is
\* building, or the one discoverPools returned.
InfoResult == IF IsTwap THEN result ELSE outcome.v

\* C22: a failed symbol or decimals read never fails calculateTwap or
\* discoverPools and never cancels its sibling: once the metadata reads were
\* made, all four were made, the call has not thrown, and the result reports
\* for each token 'UNKNOWN' or 18 in place of a failed read and the value
\* read for every other one.
C22_TokenInfoFaultIsolated ==
    InfoReadsAt # {} =>
        LET first == CHOOSE i \in InfoReadsAt : \A j \in InfoReadsAt : i <= j
        IN  /\ InfoReadsAt = first .. (first + 3)
            /\ ~HasThrown
            /\ pc \in {"twap", "done"}
            /\ TokenInfoFromReads(InfoResult.tokens.company, first)
            /\ TokenInfoFromReads(InfoResult.tokens.currency, first + 2)

\* The currency symbol read failed while its decimals read gave 6, and the
\* call returned both.
W22_SymbolFailedDecimalsRead ==
    /\ InfoReadsAt # {}
    /\ HasReturned
    /\ \E i \in InfoReadsAt :
          /\ reads[i].fn = "symbol" /\ ~reads[i].outcome.ok
          /\ reads[i + 1].outcome.ok
    /\ outcome.v.tokens.currency.symbol = "UNKNOWN"
    /\ outcome.v.tokens.currency.decimals = 6
    /\ outcome.v.tokens.company.symbol = "GNO"

\* The reads of the request in progress, by kind.
LookupsAt == {i \in DOMAIN reads : IsLookup(reads[i])}

Token0ReadsAt == {i \in DOMAIN reads : reads[i].fn = "token0"}

LaterReadsAt == InfoReadsAt \cup OracleReads

\* The seven proposal reads come first and the pool lookups after them.
TokensThenLookups ==
    /\ Len(reads) >= 7
    /\ \A i \in 1..7 : reads[i].fn = TokenReadNames[i]
    /\ LookupsAt # {}
    /\ \A i \in LookupsAt : i > 7

\* Both orientation reads were made, after every lookup and before every
\* metadata or oracle read.
OrientationAfterLookups ==
    /\ Cardinality(Token0ReadsAt) = 2
    /\ \A i \in LookupsAt, j \in Token0ReadsAt : i < j
    /\ \A j \in Token0ReadsAt, k \in LaterReadsAt : j < k

\* C23 as stated: every calculateTwap call that returns has resolved the
\* proposal tokens, looked up both conditional pools and detected the
\* orientation of both pools before it branched on the window status or on a
\* missing pool.
C23_OrientationBeforeEveryBranch ==
    (IsTwap /\ HasReturned) => (TokensThenLookups /\ OrientationAfterLookups)

\* C23: a calculateTwap call that returns has resolved the proposal tokens
\* and looked up both conditional pools first; if both pools were found it
\* has then detected the orientation of both before anything depends on the
\* window status, for every status; if a pool is missing it returns straight
\* after the lookups, with no orientation read at all.
C23_StepsBeforeStatus ==
    (IsTwap /\ HasReturned) =>
        /\ TokensThenLookups
        /\ IF "status" \in DOMAIN outcome.v
           THEN /\ OrientationAfterLookups
                /\ inversion # None
                /\ outcome.v.pools.yes.address # Null /\ outcome.v.pools.no.address # Null
           ELSE /\ Token0ReadsAt = {} /\ LaterReadsAt = {}
                /\ outcome.v.pools.yes = Null \/ outcome.v.pools.no = Null

\* A window that has not started: the call still made both orientation
\* reads before it returned the countdown.
W23_NotStartedDetectedOrientation ==
    /\ IsTwap /\ HasReturned
    /\ "status" \in DOMAIN outcome.v
    /\ outcome.v.status = "NOT_STARTED"
    /\ Cardinality(Token0ReadsAt) = 2
    /\ OracleReads = {}

\* The pair of discoverPools that a lookup read is for: the one with its two
\* tokens, in either order.
PairOfLookup(rd) ==
    CHOOSE k \in DOMAIN Pairs(tokens) :
        {rd.args[1], rd.args[2]} = {Pairs(tokens)[k].t0, Pairs(tokens)[k].t1}

\* C24: discoverPools scans the six pairs one after another in the declared
\* order: the reads of a pair (its lookups, then its orientation read if
\* any) all come before the first read of the next pair; an orientation read
\* is made only for the two conditional pairs and only on the pool that was
\* found; the entries are in the declared order and `inverted` is null for
\* every prediction pair and for every pool not found. (Two lookups follow
\* one another directly or with one orientation read between them, so the
\* order of all of them follows from the order of the neighbours.)
C24_ScanInDeclaredOrder ==
    (IsPools /\ tokens # None) =>
        LET pairOf == [i \in LookupsAt |-> PairOfLookup(reads[i])]
            pairAt == [j \in Token0ReadsAt |-> IF j - 1 \in LookupsAt THEN pairOf[j - 1] ELSE 0]
        IN  /\ \A i \in LookupsAt, d \in {1, 2} :
                  i + d \in LookupsAt => pairOf[i] <= pairOf[i + d]
            /\ \A i \in LookupsAt : pairOf[i] <= Len(poolResults) + 1
            /\ \A j \in Token0ReadsAt :
                  /\ j - 1 \in LookupsAt
                  /\ pairAt[j] \in {1, 2}
                  /\ j + 1 \in DOMAIN reads =>
                        /\ j + 1 \notin Token0ReadsAt
                        /\ j + 1 \in LookupsAt => pairOf[j + 1] > pairAt[j]
                  /\ pairAt[j] \in DOMAIN poolResults =>
                        /\ poolResults[pairAt[j]].exists
                        /\ poolResults[pairAt[j]].address = reads[j].to
            /\ \A k \in DOMAIN poolResults :
                  /\ poolResults[k].name = Pairs(tokens)[k].name
                  /\ \E i \in LookupsAt : pairOf[i] = k
                  /\ (k > 2 \/ ~poolResults[k].exists) => poolResults[k].inverted = Null
                  /\ (k <= 2 /\ poolResults[k].exists) =>
                        /\ poolResults[k].inverted # Null
                        /\ \E j \in Token0ReadsAt : pairAt[j] = k
            /\ HasReturned => Len(poolResults) = 6

\* A completed scan: the YES conditional pool was found and its ordering
\* read, the NO one was not found, and a prediction pool was found without
\* an ordering read.
W24_MixedScan ==
    /\ IsPools /\ HasReturned
    /\ Len(poolResults) = 6
    /\ poolResults[1].exists /\ poolResults[1].inverted # Null
    /\ ~poolResults[2].exists
    /\ \E k \in 3..6 : poolResults[k].exists /\ poolResults[k].inverted = Null
    /\ Cardinality(Token0ReadsAt) = 1

\* C25: calculatePoolTwap reads the oracle at the two offsets
\* [secondsWindow, 0]; secondsWindow is a whole number of seconds, at least
\* 1, equal to the whole seconds of secondsAgo when that is 1 s or more and
\* to 1 for every secondsAgo below 1 s (0 and fractions of a second
\* included); the secondsWindow it returns is that value.
C25_WindowAtLeastOneSecond ==
    twaps # None =>
        \A i \in OracleReads :
            LET w == reads[i].args[1]
                secondsAgo == ReqSecondsAgo(req)
            IN  /\ reads[i].args = <<w, 0>>
                /\ w \in Nat /\ w >= 1
                /\ secondsAgo < Secs(1) => w = 1
                /\ secondsAgo >= Secs(1) => (Secs(w) <= secondsAgo /\ secondsAgo < Secs(w + 1))
                /\ twaps.yes.ok => twaps.yes.v.secondsWindow = w
                /\ twaps.no.ok => twaps.no.v.secondsWindow = w

\* A lookback of a fraction of a second, read over a window of one second.
W25_FractionOfASecond ==
    /\ twaps # None /\ twaps.yes.ok
    /\ ReqSecondsAgo(req) > 0 /\ ReqSecondsAgo(req) < Secs(1)
    /\ \A i \in OracleReads : reads[i].args = <<1, 0>>
    /\ twaps.yes.v.secondsWindow = 1

\* The whole ticks the average is compared with.
TickRange == -10 .. 10

\* The average tick of one pool, set against its own oracle read: the
\* reading at offset 0 (second in the reply) minus the reading at offset
\* secondsWindow (first in the reply), over secondsWindow; when the readings
\* differ by N times the window, the average is N exactly.
AverageTickFromRead(twap, rd) ==
    twap.ok =>
        /\ twap.v.averageTick.den = rd.args[1]
        /\ twap.v.averageTick.num = rd.outcome.v[2] - rd.outcome.v[1]
        /\ \A N \in TickRange :
              rd.outcome.v[2] = rd.outcome.v[1] + rd.args[1] * N =>
                 twap.v.averageTick.num = N * twap.v.averageTick.den

\* C26: averageTick = (cumulative at offset 0 - cumulative at offset
\* secondsWindow) / secondsWindow, the later reading being the second of the
\* oracle reply and the earlier one the first: readings oldest and
\* oldest + 600 * N over a 600-second window give averageTick = N exactly,
\* for negative N as well.
C26_AverageTick ==
    twaps # None =>
        /\ AverageTickFromRead(twaps.yes, reads[Len(reads) - 1])
        /\ AverageTickFromRead(twaps.no, reads[Len(reads)])

\* Over a 600-second window the readings oldest and oldest - 7 * 600 gave an
\* average tick of -7.
W26_NegativeSevenOverTenMinutes ==
    /\ twaps # None /\ twaps.yes.ok
    /\ reads[Len(reads) - 1].args = <<600, 0>>
    /\ reads[Len(reads) - 1].outcome.v
          = <<CumulativeBase, CumulativeBase - 7 * 600>>
    /\ twaps.yes.v.averageTick = [num |-> -7 * 600, den |-> 600]

\* Two addresses that are equal up to the case of their hex digits.
SameAddress(a, b) ==
    /\ Len(a) = Len(b)
    /\ \A i \in DOMAIN a : LowerChar(a[i]) = LowerChar(b[i])

\* The orientation reads of calculateTwap: the YES pool's, then the NO pool's.
YesToken0Read == reads[CHOOSE j \in Token0ReadsAt : \A k \in Token0ReadsAt : j <= k]

NoToken0Read == reads[CHOOSE j \in Token0ReadsAt : \A k \in Token0ReadsAt : j >= k]

\* C27: detectInversion returns shouldInvert = false exactly when the pool's
\* token0 equals the company token address compared case-insensitively, and
\* true for every other token0; the inverted flag that calculateTwap reports
\* for the YES pool is that value against yesCompany, and for the NO pool
\* against noCompany.
C27_InvertedUnlessCompanyIsToken0 ==
    (IsTwap /\ inversion # None) =>
        /\ Cardinality(Token0ReadsAt) = 2
        /\ YesToken0Read.to = pools.yesPool /\ NoToken0Read.to = pools.noPool
        /\ inversion.yes.shouldInvert = ~SameAddress(YesToken0Read.outcome.v, tokens.yesCompany)
        /\ inversion.no.shouldInvert = ~SameAddress(NoToken0Read.outcome.v, tokens.noCompany)
        /\ inversion.yes.token0 = YesToken0Read.outcome.v
        /\ inversion.no.token0 = NoToken0Read.outcome.v
        /\ result # None =>
              /\ result.pools.yes.inverted = inversion.yes.shouldInvert
              /\ result.pools.no.inverted = inversion.no.shouldInvert
              /\ "twap" \in DOMAIN result =>
                    /\ result.twap.yes.inverted = inversion.yes.shouldInvert
                    /\ result.twap.no.inverted = inversion.no.shouldInvert

\* The YES pool's token0 is the company token written in lower case, the NO
\* pool's is the currency token: the result reports YES not inverted and NO
\* inverted.
W27_LowerCaseCompanyNotInverted ==
    /\ IsTwap /\ HasReturned /\ inversion # None /\ result # None
    /\ YesToken0Read.outcome.v # tokens.yesCompany
    /\ YesToken0Read.outcome.v = ToLowerCase(tokens.yesCompany)
    /\ NoToken0Read.outcome.v = tokens.noCurrency
    /\ result.pools.yes.inverted = FALSE
    /\ result.pools.no.inverted = TRUE

\* C28: getProvider(chainId, rpcUrl) throws 'Unsupported chain' for every
\* chainId that CHAIN_CONFIG does not hold, in every state of the provider
\* cache, also after a call for a supported chain has cached a connection
\* for the same rpcUrl.
C28_GetProviderRefusesUnknownChain ==
    (got # None /\ ~HasConfig(got.chainId)) =>
        /\ got.kind = "thrown"
        /\ got.err = "Unsupported chain " \o ToString(got.chainId)

\* The cache key as the claim words it: the override when one is given, the
\* chain id otherwise.
KeyOf(chainId, rpcUrl) ==
    IF rpcUrl # NoRpc THEN [override |-> rpcUrl] ELSE [chain |-> chainId]

\* The request in progress and a call from outside it both hold a
\* connection that getProvider returned.
TwoCallsReturned == provider # None /\ got # None /\ got.kind = "returned"

Awaiting == pc \notin {"idle", "done"}

\* Every on-chain read that a request issues eventually completes: the step
\* that waits for it is taken.
LiveSpec == Spec /\ WF_vars(Settle)

\* C30: if every on-chain read that a request issues eventually completes,
\* every calculateTwap and discoverPools call eventually returns a result or
\* throws; and nothing but the completion of a read moves a request on, so a
\* request that awaits a read that never completes never finishes.
C30_EveryCallFinishes ==
    /\ Awaiting ~> (pc = "done" /\ outcome.kind \in {"returned", "thrown"})
    /\ [][(Awaiting /\ pc' # pc) => Len(reads') > Len(reads)]_vars

\* A discoverPools call that returned after its proposal reads, the lookups
\* of all six pairs and the four metadata reads.
W30_LongestCallReturned ==
    /\ IsPools /\ HasReturned
    /\ Len(poolResults) = 6
    /\ Len(reads) >= 7 + 6 + 4

====
